---- MODULE Spec2Model ----
(***************************************************************************)
(* Healthcare data pipeline: the scheduler (pipeline_scheduler.py), the    *)
(* orchestrator it runs (scripts/healthcare_pipeline.py) and the manual    *)
(* trigger of the dashboard (pipeline_dashboard.py).                       *)
(*                                                                         *)
(* A run of PipelineScheduler.run_pipeline_job is a sequence of steps of   *)
(* one execution context t: the polling loop ("poll") or a thread started  *)
(* by the dashboard's /run-job route ("manual").                           *)
(***************************************************************************)
EXTENDS Integers, Sequences, FiniteSets, TLC

(* ------------------------------ bounds -------------------------------- *)
\* runs started in the specification Spec
MaxRuns == 2
\* the wall clock stops advancing at MaxTime seconds
MaxTime == 1
\* runs started in the specifications about the history bound
MaxRunsH == 102
\* manual threads started by the dashboard in SpecConc
MaxManual == 1
\* rows of the largest batch followed through Validate and Transform
MaxRows == 20
\* largest limit given to get_job_history
MaxLimit == 3

(* ------------------------- program constants -------------------------- *)
\* pipeline_scheduler.py:128   if len(self.pipeline_history) > 100
HistoryLimit == 100
\* pipeline_scheduler.py:179   conditions.get('processing_time_threshold', 300)
DefaultProcessingTimeThreshold == 300
\* pipeline_scheduler.py:186   conditions.get('error_rate_threshold', 5.0)
DefaultErrorRateThreshold == 5

(* ----------------------- optional values (dict keys) ------------------ *)
\* A key of a dict that may be missing: {} is "no such key", {v} is the value.
Absent == {}
Some(v) == {v}
\* dict.get(key, default)
Get(opt, default) == IF opt = {} THEN default ELSE CHOOSE v \in opt : TRUE

Threads == {"poll", "manual"}
Environments == {"development", "production"}
\* run_pipeline_job(self, environment='development')
DefaultEnvironment == "development"

Min(a, b) == IF a < b THEN a ELSE b
Max(a, b) == IF a > b THEN a ELSE b
Last(s) == s[Len(s)]
\* s[-n:] of a Python list, n > 0
Tail_n(s, n) == IF Len(s) <= n THEN s ELSE SubSeq(s, Len(s) - n + 1, Len(s))
\* s[:n] of a Python list
Head_n(s, n) == IF Len(s) <= n THEN s ELSE SubSeq(s, 1, n)

(* ---------------------------- configuration --------------------------- *)
\* The parsed YAML document, self.config: a dict (kind "dict") whose keys may be
\* missing, or Python's None (kind "none": yaml.safe_load of an empty file).
\* alerts is the shape of monitoring.alerts: "absent", "null" (the key is there
\* with no value) or "dict"; the keys below it are read only when it is a dict.
EmptyDict ==
  [kind |-> "dict",
   source_type |-> Absent,
   target_database |-> [e \in Environments |-> Absent],
   validation_enabled |-> Absent,
   backup_enabled |-> Absent,
   monitoring_enabled |-> Absent,
   alerts |-> "absent",
   alerts_enabled |-> Absent,
   email_enabled |-> Absent,
   processing_time_threshold |-> Absent,
   error_rate_threshold |-> Absent,
   scheduling_enabled |-> Absent,
   scheduling_interval |-> Absent]

PyNone == [EmptyDict EXCEPT !.kind = "none"]

\* The documents a configuration file may hold.
AlertSections ==
  { [alerts |-> "absent", alerts_enabled |-> Absent, email_enabled |-> Absent,
     processing_time_threshold |-> Absent],
    [alerts |-> "null", alerts_enabled |-> Absent, email_enabled |-> Absent,
     processing_time_threshold |-> Absent],
    [alerts |-> "dict", alerts_enabled |-> Some(TRUE), email_enabled |-> Absent,
     processing_time_threshold |-> Absent],
    [alerts |-> "dict", alerts_enabled |-> Some(TRUE), email_enabled |-> Some(TRUE),
     processing_time_threshold |-> Some(0)] }

\* The other sections: validation and backup switched off or left to their
\* default, and the database of the production environment.
OtherSections ==
  { [validation_enabled |-> Absent, backup_enabled |-> Absent,
     production |-> "postgresql"],
    [validation_enabled |-> Some(FALSE), backup_enabled |-> Absent,
     production |-> "mysql"],
    [validation_enabled |-> Absent, backup_enabled |-> Some(FALSE),
     production |-> "mysql"] }

ConfigDocuments ==
  { [EmptyDict EXCEPT
       !.target_database = [e \in Environments |->
                              IF e = DefaultEnvironment THEN Absent
                              ELSE Some(ot.production)],
       !.validation_enabled = ot.validation_enabled,
       !.backup_enabled = ot.backup_enabled,
       !.alerts = al.alerts,
       !.alerts_enabled = al.alerts_enabled,
       !.email_enabled = al.email_enabled,
       !.processing_time_threshold = al.processing_time_threshold] :
      ot \in OtherSections,
      al \in AlertSections }

\* The configuration file on disk when the scheduler is constructed.
ConfigFiles ==
  {[state |-> "missing", content |-> EmptyDict],
   [state |-> "empty", content |-> EmptyDict]}
  \cup {[state |-> "valid", content |-> d] : d \in ConfigDocuments}

\* PipelineScheduler.load_config: any failure to open or parse gives {}; an empty
\* file parses to None and is returned as it is.
load_config(file) ==
  CASE file.state = "missing" -> EmptyDict
    [] file.state = "empty" -> PyNone
    [] OTHER -> file.content

\* create_pipeline_config raises (AttributeError: None has no .get) unless
\* self.config is a dict.
create_pipeline_config_raises(cfg) == cfg.kind # "dict"

\* PipelineScheduler.create_pipeline_config: the PipelineConfig of a run.
create_pipeline_config(cfg, environment) ==
  [source_type |-> Get(cfg.source_type, "csv"),
   target_database |-> Get(cfg.target_database[environment], "sqlite"),
   validation_enabled |-> Get(cfg.validation_enabled, TRUE),
   backup_enabled |-> Get(cfg.backup_enabled, TRUE),
   monitoring_enabled |-> Get(cfg.monitoring_enabled, TRUE)]

\* self.config.get('monitoring', {}).get('alerts', {}).get('enabled', False)
\* raises when monitoring.alerts is None.
alerts_enabled_raises(cfg) == cfg.alerts = "null"
alerts_enabled(cfg) == cfg.alerts = "dict" /\ Get(cfg.alerts_enabled, FALSE)

(* ------------------------------ metrics ------------------------------- *)
\* PipelineMonitor.__init__ (healthcare_pipeline.py): self.metrics
NewMonitor ==
  [start_time |-> Absent, end_time |-> Absent, records_processed |-> 0,
   records_failed |-> 0, validation_errors |-> 0, processing_time |-> 0]

\* PipelineMonitor.start_pipeline
start_pipeline(m, t) == [m EXCEPT !.start_time = Some(t)]

\* PipelineMonitor.end_pipeline
end_pipeline(m, t) ==
  [m EXCEPT !.end_time = Some(t), !.processing_time = t - Get(m.start_time, 0)]

\* PipelineMonitor.add_validation_error, called n times
add_validation_errors(m, n) ==
  [m EXCEPT !.validation_errors = @ + n, !.records_failed = @ + n]

\* increment_processed called without the number of records (count = 1).
increment_processed_default(m, count) == [m EXCEPT !.records_processed = @ + 1]

\* PipelineMonitor.increment_processed
increment_processed(m, count) == [m EXCEPT !.records_processed = @ + count]

\* PipelineMonitor.get_summary. success_rate is the exact quotient
\* (processed - failed) / max(processed, 1) * 100, kept as num / den.
get_summary(m) ==
  [status |-> IF m.end_time # Absent THEN "completed" ELSE "running",
   processing_time_seconds |-> m.processing_time,
   records_processed |-> m.records_processed,
   records_failed |-> m.records_failed,
   success_rate |-> [num |-> (m.records_processed - m.records_failed) * 100,
                     den |-> Max(m.records_processed, 1)],
   validation_errors |-> m.validation_errors]

\* metrics.get('success_rate', 100) of a job_info that may have no metrics
SuccessRateOf(job) ==
  IF job.metrics = Absent THEN [num |-> 100, den |-> 1]
  ELSE Get(job.metrics, 0).success_rate

(* ------------------------------ alerting ------------------------------ *)
\* should_send_alert alerting on status error only.
should_send_alert_errors_only(job, cfg) ==
  LET processing_time == Get(job.processing_time, 0)
      threshold == Get(cfg.processing_time_threshold, DefaultProcessingTimeThreshold)
      sr == SuccessRateOf(job)
      error_threshold == Get(cfg.error_rate_threshold, DefaultErrorRateThreshold)
  IN  \/ job.status = "error"
      \/ processing_time > threshold
      \/ 100 * sr.den - sr.num > error_threshold * sr.den

\* should_send_alert alerting from the threshold on, not above it.
should_send_alert_at_threshold(job, cfg) ==
  LET processing_time == Get(job.processing_time, 0)
      threshold == Get(cfg.processing_time_threshold, DefaultProcessingTimeThreshold)
      sr == SuccessRateOf(job)
      error_threshold == Get(cfg.error_rate_threshold, DefaultErrorRateThreshold)
  IN  \/ job.status \in {"failed", "error"}
      \/ processing_time >= threshold
      \/ 100 * sr.den - sr.num >= error_threshold * sr.den

\* PipelineScheduler.should_send_alert. error_rate = 100 - success_rate is
\* compared with the threshold after multiplying both sides by den > 0.
should_send_alert(job, cfg) ==
  LET processing_time == Get(job.processing_time, 0)
      threshold == Get(cfg.processing_time_threshold, DefaultProcessingTimeThreshold)
      sr == SuccessRateOf(job)
      error_threshold == Get(cfg.error_rate_threshold, DefaultErrorRateThreshold)
  IN  \/ job.status \in {"failed", "error"}
      \/ processing_time > threshold
      \/ 100 * sr.den - sr.num > error_threshold * sr.den

\* PipelineScheduler.send_alert up to the point where the message is handed to
\* the transport: TRUE when smtplib.SMTP(...) is reached for this job.
send_alert_reaches_transport(job, cfg) ==
  /\ cfg.alerts = "dict"
  /\ Get(cfg.email_enabled, FALSE)
  /\ should_send_alert(job, cfg)

(* ------------------------------- state -------------------------------- *)
VARIABLES
  config_file,       \* the configuration file found by PipelineScheduler.__init__
  config,            \* self.config
  now,               \* datetime.now(), in whole seconds
  pipeline_history,  \* self.pipeline_history
  store,             \* the target database: which run's batch is in which table
  backups,           \* the runs whose database copy is in backups/
  attempted,         \* the runs whose alert reached smtplib.SMTP(...)
  sent,              \* the runs whose alert the transport delivered
  pc,                \* where each execution context is in run_pipeline_job
  job_info,          \* the local job_info of each context
  pipeline,          \* the local HealthcarePipeline of each context
  exc,               \* str(e) of the exception a context is handling
  local_slice,       \* self.pipeline_history[-100:] computed, not yet assigned
  runs,              \* calls of run_pipeline_job so far
  finished,          \* ids of the runs in the order they reached line 125
  escaped,           \* ids of the runs whose call ended by raising
  manuals,           \* manual threads started so far
  alert_call,        \* a call of should_send_alert: its arguments and result
  health_call,       \* a call of calculate_overall_health: arguments and result
  report,            \* PipelineMonitor.generate_health_report in progress
  cli,               \* main() of pipeline_scheduler.py: what it printed, how it exited
  batch,             \* a batch on its way through Extract, Validate and Transform
  history_call       \* a call of get_job_history: its argument and result

vars == <<alert_call, health_call, report, cli, batch, history_call,
          config_file, config, now, pipeline_history, store, backups, attempted,
          sent, pc, job_info, pipeline, exc, local_slice, runs, finished,
          escaped, manuals>>

Tables == {"patients", "admissions", "financial_data"}

\* job_info before the first call of a context
NoJob ==
  [seq |-> 0, job_id |-> 0, environment |-> DefaultEnvironment, start_time |-> 0,
   status |-> "none", config |-> create_pipeline_config(EmptyDict, DefaultEnvironment),
   end_time |-> Absent, processing_time |-> Absent, metrics |-> Absent,
   error |-> Absent]

\* No call of should_send_alert is being looked at.
NoCall == [job |-> NoJob, called |-> FALSE, returned |-> FALSE, result |-> FALSE]

\* get_pipeline_status() of a scheduler that has run nothing and is not polling
NoStatus ==
  [scheduler_running |-> FALSE, current_job |-> Absent, total_jobs |-> 0,
   successful_jobs |-> 0, failed_jobs |-> 0, last_job |-> Absent]

\* The dict check_database_health returns (kind "dict"), or None (kind "none").
HealthyStore(connection_type) ==
  [kind |-> "dict", status |-> "healthy", error |-> Absent,
   connection_type |-> connection_type]

UnhealthyStore(connection_type, e) ==
  [kind |-> "dict", status |-> "unhealthy", error |-> Some(e),
   connection_type |-> connection_type]

NoneStore == [HealthyStore("none") EXCEPT !.kind = "none", !.status = "none"]

\* No call of calculate_overall_health is being looked at.
NoHealthCall ==
  [system_metrics |-> Absent, database_health |-> HealthyStore("sqlite"),
   pipeline_status |-> NoStatus, called |-> FALSE, returned |-> FALSE,
   result |-> "none"]

\* No health report has been asked for.
NoReport ==
  [pc |-> "idle", system_metrics |-> Absent, database_health |-> NoneStore,
   pipeline_status |-> NoStatus, overall_health |-> "none", raised |-> "none"]

\* main() has not been entered, or is still running its job.
NoCli == [exited |-> FALSE, printed |-> "none", exit_code |-> 0]

\* A DataFrame: its columns and its rows, each row a function of the columns.
EmptyFrame == [columns |-> {}, rows |-> << >>]

\* No batch is being followed through the orchestrator.
NoBatch ==
  [pc |-> "idle", validation_enabled |-> TRUE, source |-> EmptyFrame,
   raw |-> EmptyFrame, df |-> EmptyFrame, clean |-> EmptyFrame,
   issues |-> << >>, raised |-> "none"]

\* No call of get_job_history is being looked at.
NoHistoryCall ==
  [limit |-> 0, called |-> FALSE, returned |-> FALSE, result |-> << >>]

\* HealthcarePipeline.__init__, with the record of what the run did:
\* stages: the stages attempted, in order; is_valid: whether every Validator
\* category that returned has passed; loads: the result of each sub-entity load attempted;
\* result: what run_pipeline returned; raised: the stage whose exception
\* run_pipeline caught ("none" if it caught none).
NewPipeline ==
  [monitor |-> NewMonitor, rows |-> 0, stages |-> << >>, is_valid |-> TRUE,
   loads |-> << >>, result |-> "none", raised |-> "none", store_before |-> {}]

\* The environment's part in a run: In.<field> is the set the outcome of that
\* step is drawn from.
AllInputs ==
  [environments |-> Environments,
   engine_ok |-> BOOLEAN,
   extract_ok |-> BOOLEAN,
   rows |-> {0, 2},
   validators |-> {[raised |-> FALSE, issues |-> 0], [raised |-> FALSE, issues |-> 1],
                   [raised |-> TRUE, issues |-> 0]},
   transform_ok |-> BOOLEAN,
   load_ok |-> BOOLEAN,
   backup_ok |-> BOOLEAN,
   save_ok |-> BOOLEAN,
   smtp_ok |-> BOOLEAN]

\* A reachable source and store, a valid batch, nothing failing.
NominalInputs ==
  [environments |-> {DefaultEnvironment},
   engine_ok |-> {TRUE},
   extract_ok |-> {TRUE},
   rows |-> {2},
   validators |-> {[raised |-> FALSE, issues |-> 0]},
   transform_ok |-> {TRUE},
   load_ok |-> {TRUE},
   backup_ok |-> {TRUE},
   save_ok |-> {TRUE},
   smtp_ok |-> {TRUE}]

\* PipelineScheduler.__init__ after load_config
InitScheduler(files) ==
  /\ config_file \in files
  /\ config = load_config(config_file)
  /\ now = 0
  /\ pipeline_history = << >>
  /\ store = {}
  /\ backups = {}
  /\ attempted = {}
  /\ sent = {}
  /\ pc = [t \in Threads |-> "idle"]
  /\ job_info = [t \in Threads |-> NoJob]
  /\ pipeline = [t \in Threads |-> NewPipeline]
  /\ exc = [t \in Threads |-> ""]
  /\ local_slice = [t \in Threads |-> << >>]
  /\ runs = 0
  /\ finished = << >>
  /\ escaped = {}
  /\ manuals = 0

\* The scheduler constructed; no health report and no main() under way.
InitWith(files, calls) ==
  /\ InitScheduler(files)
  /\ alert_call \in calls
  /\ health_call = NoHealthCall
  /\ report = NoReport
  /\ cli = NoCli
  /\ batch = NoBatch
  /\ history_call = NoHistoryCall

Init == InitWith(ConfigFiles, {NoCall})

\* The steps of a run that take time: loading, and what follows run_pipeline
\* or an exception in run_pipeline_job.
TimedSteps == {"load", "outcome", "except"}

\* The wall clock advances by a second while some run is at a step that takes
\* time.
Tick ==
  /\ now < MaxTime
  /\ \E t \in Threads : pc[t] \in TimedSteps
  /\ now' = now + 1
  /\ UNCHANGED <<alert_call, health_call, report, cli, batch, history_call,
                 config_file, config, pipeline_history, store, backups,
                 attempted, sent, pc, job_info, pipeline, exc, local_slice,
                 runs, finished, escaped, manuals>>

(* ------------------- PipelineScheduler.run_pipeline_job ---------------- *)
\* Lines 78-85: the call starts. The polling loop calls run_pipeline_job() with
\* no argument (setup_schedule); run_manual_job passes its environment on.
\* create_pipeline_config is evaluated outside the try: when it raises, the
\* call ends with that exception.
StartJob(t, In, maxRuns, maxManuals, overlap) ==
  /\ pc[t] = "idle"
  /\ runs < maxRuns
  /\ overlap \/ \A u \in Threads : pc[u] = "idle"
  /\ t = "manual" => manuals < maxManuals
  /\ \E environment \in In.environments :
       /\ t = "poll" => environment = DefaultEnvironment
       /\ runs' = runs + 1
       /\ manuals' = IF t = "manual" THEN manuals + 1 ELSE manuals
       /\ IF create_pipeline_config_raises(config)
          THEN /\ escaped' = escaped \cup {runs + 1}
               /\ UNCHANGED <<pc, job_info, pipeline>>
          ELSE /\ job_info' = [job_info EXCEPT ![t] =
                    [seq |-> runs + 1,
                     job_id |-> now,
                     environment |-> environment,
                     start_time |-> now,
                     status |-> "running",
                     config |-> create_pipeline_config(config, environment),
                     end_time |-> Absent,
                     processing_time |-> Absent,
                     metrics |-> Absent,
                     error |-> Absent]]
               /\ pipeline' = [pipeline EXCEPT ![t] = NewPipeline]
               /\ pc' = [pc EXCEPT ![t] = "construct"]
               /\ UNCHANGED escaped
  /\ UNCHANGED <<alert_call, health_call, report, cli, batch, history_call,
                 config_file, config, now, pipeline_history, store, backups,
                 attempted, sent, exc, local_slice, finished>>

\* Line 91, HealthcarePipeline(config): DataLoader._create_engine raises
\* ValueError for a database that is neither sqlite nor postgresql, and
\* create_engine of a postgresql URL may fail (driver, URL).
ConstructPipeline(t, In) ==
  /\ pc[t] = "construct"
  /\ \E engine_ok \in In.engine_ok :
       LET db == job_info[t].config.target_database IN
       IF db \notin {"sqlite", "postgresql"}
       THEN /\ exc' = [exc EXCEPT ![t] = "Unsupported database type"]
            /\ pc' = [pc EXCEPT ![t] = "except"]
       ELSE IF db = "postgresql" /\ ~engine_ok
       THEN /\ exc' = [exc EXCEPT ![t] = "create_engine failed"]
            /\ pc' = [pc EXCEPT ![t] = "except"]
       ELSE /\ pc' = [pc EXCEPT ![t] = "extract"]
            /\ UNCHANGED exc
  /\ UNCHANGED <<alert_call, health_call, report, cli, batch, history_call,
                 config_file, config, now, pipeline_history, store, backups,
                 attempted, sent, job_info, pipeline, local_slice, runs,
                 finished, escaped, manuals>>

(* --------------------- HealthcarePipeline.run_pipeline ----------------- *)
\* run_pipeline's except clause (lines 535-538): end_pipeline, return False.
CaughtInPipeline(p, stage) ==
  [p EXCEPT !.monitor = end_pipeline(@, now), !.result = "false", !.raised = stage]

\* Lines 499-504: start_pipeline, extract_data, increment_processed(len(df)).
\* extract_data raises for a source type other than csv and when read_csv fails.
Extract(t, In) ==
  /\ pc[t] = "extract"
  /\ \E ok \in In.extract_ok, n \in In.rows :
       LET p0 == [pipeline[t] EXCEPT !.monitor = start_pipeline(@, now),
                                     !.stages = Append(@, "extract"),
                                     !.store_before = store] IN
       IF job_info[t].config.source_type # "csv" \/ ~ok
       THEN /\ pipeline' = [pipeline EXCEPT ![t] = CaughtInPipeline(p0, "extract")]
            /\ pc' = [pc EXCEPT ![t] = "outcome"]
       ELSE /\ pipeline' = [pipeline EXCEPT ![t] =
                 [p0 EXCEPT !.rows = n, !.monitor = increment_processed(@, n)]]
            /\ pc' = [pc EXCEPT ![t] =
                 IF job_info[t].config.validation_enabled THEN "validate"
                 ELSE "transform"]
  /\ UNCHANGED <<alert_call, health_call, report, cli, batch, history_call,
                 config_file, config, now, pipeline_history, store, backups,
                 attempted, sent, job_info, exc, local_slice, runs, finished,
                 escaped, manuals>>

\* HealthcarePipeline.validate_data over the outcomes of the three categories,
\* in the order patient, admission, financial: the issues of a category are
\* recorded before the next category runs, passed is len(errors) == 0 and
\* is_valid the conjunction; a category that raises ends validate_data with that
\* exception.
RECURSIVE validate_data(_, _)
validate_data(p, outcomes) ==
  IF outcomes = << >> THEN p
  ELSE LET o == Head(outcomes) IN
       IF o.raised THEN [p EXCEPT !.raised = "validate"]
       ELSE validate_data(
              [p EXCEPT !.monitor = add_validation_errors(@, o.issues),
                        !.is_valid = @ /\ o.issues = 0],
              Tail(outcomes))

\* The Validate stage recording the issues and going on to Transform whatever
\* validate_data returned.
ValidateNonBlocking(t, In) ==
  /\ pc[t] = "validate"
  /\ \E patient \in In.validators, admission \in In.validators,
        financial \in In.validators :
       LET p0 == [pipeline[t] EXCEPT !.stages = Append(@, "validate")]
           p1 == validate_data(p0, <<patient, admission, financial>>) IN
       IF p1.raised = "validate"
       THEN /\ pipeline' = [pipeline EXCEPT ![t] = CaughtInPipeline(p1, "validate")]
            /\ pc' = [pc EXCEPT ![t] = "outcome"]
       ELSE /\ pipeline' = [pipeline EXCEPT ![t] = p1]
            /\ pc' = [pc EXCEPT ![t] = "transform"]
  /\ UNCHANGED <<alert_call, health_call, report, cli, batch, history_call,
                 config_file, config, now, pipeline_history, store, backups,
                 attempted, sent, job_info, exc, local_slice, runs, finished,
                 escaped, manuals>>

\* Lines 507-510: the Validate stage of run_pipeline.
Validate(t, In) ==
  /\ pc[t] = "validate"
  /\ \E patient \in In.validators, admission \in In.validators,
        financial \in In.validators :
       LET p0 == [pipeline[t] EXCEPT !.stages = Append(@, "validate")]
           p1 == validate_data(p0, <<patient, admission, financial>>) IN
       IF p1.raised = "validate"
       THEN /\ pipeline' = [pipeline EXCEPT ![t] = CaughtInPipeline(p1, "validate")]
            /\ pc' = [pc EXCEPT ![t] = "outcome"]
       ELSE IF ~p1.is_valid
       THEN /\ pipeline' = [pipeline EXCEPT ![t] = [p1 EXCEPT !.result = "false"]]
            /\ pc' = [pc EXCEPT ![t] = "outcome"]
       ELSE /\ pipeline' = [pipeline EXCEPT ![t] = p1]
            /\ pc' = [pc EXCEPT ![t] = "transform"]
  /\ UNCHANGED <<alert_call, health_call, report, cli, batch, history_call,
                 config_file, config, now, pipeline_history, store, backups,
                 attempted, sent, job_info, exc, local_slice, runs, finished,
                 escaped, manuals>>

\* transform_data letting a batch without rows through.
TransformEmptyBatch(t, In) ==
  /\ pc[t] = "transform"
  /\ \E ok \in In.transform_ok :
       LET p0 == [pipeline[t] EXCEPT !.stages = Append(@, "transform")] IN
       IF ~ok
       THEN /\ pipeline' = [pipeline EXCEPT ![t] = CaughtInPipeline(p0, "transform")]
            /\ pc' = [pc EXCEPT ![t] = "outcome"]
       ELSE /\ pipeline' = [pipeline EXCEPT ![t] = p0]
            /\ pc' = [pc EXCEPT ![t] = "load"]
  /\ UNCHANGED <<alert_call, health_call, report, cli, batch, history_call,
                 config_file, config, now, pipeline_history, store, backups,
                 attempted, sent, job_info, exc, local_slice, runs, finished,
                 escaped, manuals>>

\* Line 513, transform_data: the three clean_* functions; an exception of any of
\* them is caught by run_pipeline. clean_patient_data always raises on a batch
\* without rows: the split of an empty Name column has no column to index
\* (lines 157-158), and without a Name column line 169 raises.
Transform(t, In) ==
  /\ pc[t] = "transform"
  /\ \E ok \in In.transform_ok :
       LET p0 == [pipeline[t] EXCEPT !.stages = Append(@, "transform")] IN
       IF ~ok \/ pipeline[t].rows = 0
       THEN /\ pipeline' = [pipeline EXCEPT ![t] = CaughtInPipeline(p0, "transform")]
            /\ pc' = [pc EXCEPT ![t] = "outcome"]
       ELSE /\ pipeline' = [pipeline EXCEPT ![t] = p0]
            /\ pc' = [pc EXCEPT ![t] = "load"]
  /\ UNCHANGED <<alert_call, health_call, report, cli, batch, history_call,
                 config_file, config, now, pipeline_history, store, backups,
                 attempted, sent, job_info, exc, local_slice, runs, finished,
                 escaped, manuals>>

\* The order in which load_data calls load_patients, load_admissions and
\* load_financial_data.
LoadOrder == <<"patients", "admissions", "financial_data">>

\* load_data giving up at the first sub-entity load that fails.
load_data_short_circuit(seq, ok) ==
  LET failed == {i \in 1..Len(LoadOrder) : ~ok[LoadOrder[i]]}
      last == IF failed = {} THEN Len(LoadOrder)
              ELSE CHOOSE i \in failed : \A j \in failed : i <= j
  IN  [loads |-> [i \in 1..last |-> ok[LoadOrder[i]]],
       written |-> {[table |-> LoadOrder[i], run |-> seq] : i \in 1..(last - 1)}
                   \cup (IF failed = {}
                         THEN {[table |-> LoadOrder[last], run |-> seq]} ELSE {}),
       success |-> failed = {}]

\* HealthcarePipeline.load_data for run seq, ok[table] telling whether the
\* sub-entity load of that table succeeds (each DataLoader.load_* catches its
\* own exception and returns False): the loads attempted with their results, the
\* rows appended to the store, and the overall result.
load_data(seq, ok) ==
  [loads |-> [i \in 1..Len(LoadOrder) |-> ok[LoadOrder[i]]],
   written |-> {[table |-> tb, run |-> seq] : tb \in {x \in Tables : ok[x]}},
   success |-> \A tb \in Tables : ok[tb]]

\* The Load stage going on to Backup whatever load_data returned.
LoadThenBackup(t, In) ==
  /\ pc[t] = "load"
  /\ \E ok \in [Tables -> In.load_ok] :
       LET r == load_data(job_info[t].seq, ok)
           p0 == [pipeline[t] EXCEPT !.stages = Append(@, "load"),
                                     !.loads = r.loads] IN
       /\ store' = store \cup r.written
       /\ pipeline' = [pipeline EXCEPT ![t] = p0]
       /\ pc' = [pc EXCEPT ![t] = "backup"]
  /\ UNCHANGED <<alert_call, health_call, report, cli, batch, history_call,
                 config_file, config, now, pipeline_history, backups, attempted,
                 sent, job_info, exc, local_slice, runs, finished, escaped,
                 manuals>>

\* Lines 516-518: the Load stage of run_pipeline.
Load(t, In) ==
  /\ pc[t] = "load"
  /\ \E ok \in [Tables -> In.load_ok] :
       LET r == load_data(job_info[t].seq, ok)
           p0 == [pipeline[t] EXCEPT !.stages = Append(@, "load"),
                                     !.loads = r.loads] IN
       /\ store' = store \cup r.written
       /\ IF ~r.success
          THEN /\ pipeline' = [pipeline EXCEPT ![t] = [p0 EXCEPT !.result = "false"]]
               /\ pc' = [pc EXCEPT ![t] = "outcome"]
          ELSE /\ pipeline' = [pipeline EXCEPT ![t] = p0]
               /\ pc' = [pc EXCEPT ![t] = "backup"]
  /\ UNCHANGED <<alert_call, health_call, report, cli, batch, history_call,
                 config_file, config, now, pipeline_history, backups, attempted,
                 sent, job_info, exc, local_slice, runs, finished, escaped,
                 manuals>>

\* create_backup without its try: a failure of the copy is caught by
\* run_pipeline, which returns False.
CreateBackupRaises(t, In) ==
  /\ pc[t] = "backup"
  /\ \E ok \in In.backup_ok :
       LET cfg == job_info[t].config
           p0 == [pipeline[t] EXCEPT !.stages =
                    IF cfg.backup_enabled THEN Append(@, "backup") ELSE @] IN
       IF cfg.backup_enabled /\ cfg.target_database = "sqlite" /\ ~ok
       THEN /\ pipeline' = [pipeline EXCEPT ![t] = CaughtInPipeline(p0, "backup")]
            /\ pc' = [pc EXCEPT ![t] = "outcome"]
            /\ UNCHANGED backups
       ELSE /\ pipeline' = [pipeline EXCEPT ![t] = p0]
            /\ backups' = IF cfg.backup_enabled /\ cfg.target_database = "sqlite"
                          THEN backups \cup {job_info[t].seq} ELSE backups
            /\ pc' = [pc EXCEPT ![t] = "finish"]
  /\ UNCHANGED <<alert_call, health_call, report, cli, batch, history_call,
                 config_file, config, now, pipeline_history, store, attempted,
                 sent, job_info, exc, local_slice, runs, finished, escaped,
                 manuals>>

\* Line 521, create_backup: returns at once when backup is disabled; copies the
\* database file only for sqlite; a failure of the copy is logged.
CreateBackup(t, In) ==
  /\ pc[t] = "backup"
  /\ \E ok \in In.backup_ok :
       LET cfg == job_info[t].config IN
       /\ pipeline' = [pipeline EXCEPT ![t].stages =
            IF cfg.backup_enabled THEN Append(@, "backup") ELSE @]
       /\ backups' =
            IF cfg.backup_enabled /\ cfg.target_database = "sqlite" /\ ok
            THEN backups \cup {job_info[t].seq} ELSE backups
  /\ pc' = [pc EXCEPT ![t] = "finish"]
  /\ UNCHANGED <<alert_call, health_call, report, cli, batch, history_call,
                 config_file, config, now, pipeline_history, store, attempted,
                 sent, job_info, exc, local_slice, runs, finished, escaped,
                 manuals>>

\* Lines 523-533: end_pipeline, save_metrics when monitoring is enabled,
\* get_summary for the log, return True. save_metrics writes a file and may
\* raise; run_pipeline's except clause then returns False.
FinishPipeline(t, In) ==
  /\ pc[t] = "finish"
  /\ \E ok \in In.save_ok :
       LET p0 == [pipeline[t] EXCEPT !.monitor = end_pipeline(@, now)] IN
       pipeline' = [pipeline EXCEPT ![t] =
         IF job_info[t].config.monitoring_enabled /\ ~ok
         THEN CaughtInPipeline(p0, "save_metrics")
         ELSE [p0 EXCEPT !.result = "true"]]
  /\ pc' = [pc EXCEPT ![t] = "outcome"]
  /\ UNCHANGED <<alert_call, health_call, report, cli, batch, history_call,
                 config_file, config, now, pipeline_history, store, backups,
                 attempted, sent, job_info, exc, local_slice, runs, finished,
                 escaped, manuals>>

(* --------------- run_pipeline_job after run_pipeline returned ---------- *)
\* job_info['status'] = 'completed' if success else 'failed'
status_of(success) == IF success THEN "completed" ELSE "failed"

\* record_outcome taking the processing time from the pipeline's own monitor.
record_outcome_monitor_time(job, p, t_end) ==
  [job EXCEPT !.end_time = Some(t_end),
              !.status = status_of(p.result = "true"),
              !.processing_time = Some(p.monitor.processing_time),
              !.metrics = Some(get_summary(p.monitor))]

\* Lines 94-102: end_time, status, processing_time and metrics of a run whose
\* run_pipeline returned.
record_outcome(job, p, t_end) ==
  [job EXCEPT !.end_time = Some(t_end),
              !.status = status_of(p.result = "true"),
              !.processing_time = Some(t_end - job.start_time),
              !.metrics = Some(get_summary(p.monitor))]

\* Lines 111-116: end_time, status, error and processing_time in the except
\* clause of run_pipeline_job.
record_error(job, e, t_end) ==
  [job EXCEPT !.end_time = Some(t_end),
              !.status = "error",
              !.error = Some(e),
              !.processing_time = Some(t_end - job.start_time)]

\* send_alert(job): the message reaches the transport when alerting applies,
\* and is delivered when the transport works; send_alert catches every
\* exception of its own.
SendAlert(job, smtp_ok) ==
  IF send_alert_reaches_transport(job, config)
  THEN /\ attempted' = attempted \cup {job.seq}
       /\ sent' = IF smtp_ok THEN sent \cup {job.seq} ELSE sent
  ELSE UNCHANGED <<attempted, sent>>

\* Lines 94-108 with a send_alert that lets the transport's exception out: it
\* is caught by the except clause of run_pipeline_job.
RecordOutcomeAlertRaises(t, In) ==
  /\ pc[t] = "outcome"
  /\ \E smtp_ok \in In.smtp_ok :
       LET job == record_outcome(job_info[t], pipeline[t], now) IN
       /\ job_info' = [job_info EXCEPT ![t] = job]
       /\ IF alerts_enabled_raises(config)
          THEN /\ exc' = [exc EXCEPT ![t] = "AttributeError"]
               /\ pc' = [pc EXCEPT ![t] = "except"]
               /\ UNCHANGED <<attempted, sent>>
          ELSE IF alerts_enabled(config) /\ send_alert_reaches_transport(job, config)
                  /\ ~smtp_ok
          THEN /\ attempted' = attempted \cup {job.seq}
               /\ exc' = [exc EXCEPT ![t] = "SMTPException"]
               /\ pc' = [pc EXCEPT ![t] = "except"]
               /\ UNCHANGED sent
          ELSE /\ IF alerts_enabled(config) THEN SendAlert(job, smtp_ok)
                  ELSE UNCHANGED <<attempted, sent>>
               /\ pc' = [pc EXCEPT ![t] = "append"]
               /\ UNCHANGED exc
  /\ UNCHANGED <<alert_call, health_call, report, cli, batch, history_call,
                 config_file, config, now, pipeline_history, store, backups,
                 pipeline, local_slice, runs, finished, escaped, manuals>>

\* Lines 94-108. Reading monitoring.alerts.enabled raises when the alerts
\* section is None: the exception is caught by the except clause below.
RecordOutcome(t, In) ==
  /\ pc[t] = "outcome"
  /\ \E smtp_ok \in In.smtp_ok :
       LET job == record_outcome(job_info[t], pipeline[t], now) IN
       /\ job_info' = [job_info EXCEPT ![t] = job]
       /\ IF alerts_enabled_raises(config)
          THEN /\ exc' = [exc EXCEPT ![t] = "AttributeError"]
               /\ pc' = [pc EXCEPT ![t] = "except"]
               /\ UNCHANGED <<attempted, sent>>
          ELSE /\ IF alerts_enabled(config) THEN SendAlert(job, smtp_ok)
                  ELSE UNCHANGED <<attempted, sent>>
               /\ pc' = [pc EXCEPT ![t] = "append"]
               /\ UNCHANGED exc
  /\ UNCHANGED <<alert_call, health_call, report, cli, batch, history_call,
                 config_file, config, now, pipeline_history, store, backups,
                 pipeline, local_slice, runs, finished, escaped, manuals>>

\* Lines 110-122, the except clause. Reading monitoring.alerts.enabled again
\* raises again when the alerts section is None, and nothing catches it: the
\* call ends with that exception, before line 125.
HandleError(t, In) ==
  /\ pc[t] = "except"
  /\ \E smtp_ok \in In.smtp_ok :
       LET job == record_error(job_info[t], exc[t], now) IN
       /\ IF alerts_enabled_raises(config)
          THEN /\ escaped' = escaped \cup {job.seq}
               /\ pc' = [pc EXCEPT ![t] = "idle"]
               /\ job_info' = [job_info EXCEPT ![t] = NoJob]
               /\ pipeline' = [pipeline EXCEPT ![t] = NewPipeline]
               /\ UNCHANGED <<attempted, sent>>
          ELSE /\ IF alerts_enabled(config) THEN SendAlert(job, smtp_ok)
                  ELSE UNCHANGED <<attempted, sent>>
               /\ job_info' = [job_info EXCEPT ![t] = job]
               /\ pc' = [pc EXCEPT ![t] = "append"]
               /\ UNCHANGED <<escaped, pipeline>>
  /\ exc' = [exc EXCEPT ![t] = ""]
  /\ UNCHANGED <<alert_call, health_call, report, cli, batch, history_call,
                 config_file, config, now, pipeline_history, store, backups,
                 local_slice, runs, finished, manuals>>

(* ------------------------- the job history ---------------------------- *)
\* Line 125: self.pipeline_history.append(job_info)
AppendHistory(t) ==
  /\ pc[t] = "append"
  /\ pipeline_history' = Append(pipeline_history, job_info[t])
  /\ finished' = Append(finished, job_info[t].seq)
  /\ pc' = [pc EXCEPT ![t] = "check"]
  /\ UNCHANGED <<alert_call, health_call, report, cli, batch, history_call,
                 config_file, config, now, store, backups, attempted, sent,
                 job_info, pipeline, exc, local_slice, runs, escaped, manuals>>

\* Line 128: if len(self.pipeline_history) > 100
over_limit(history) == Len(history) > HistoryLimit

\* Line 128 followed by a second stamp of end_time on the job run.
CheckHistoryRestamps(t) ==
  /\ pc[t] = "check"
  /\ pc' = [pc EXCEPT ![t] = IF over_limit(pipeline_history) THEN "slice" ELSE "return"]
  /\ job_info' = [job_info EXCEPT ![t].end_time = Some(now + 1)]
  /\ UNCHANGED <<alert_call, health_call, report, cli, batch, history_call,
                 config_file, config, now, pipeline_history, store, backups,
                 attempted, sent, pipeline, exc, local_slice, runs, finished,
                 escaped, manuals>>

CheckHistory(t) ==
  /\ pc[t] = "check"
  /\ pc' = [pc EXCEPT ![t] = IF over_limit(pipeline_history) THEN "slice" ELSE "return"]
  /\ UNCHANGED <<alert_call, health_call, report, cli, batch, history_call,
                 config_file, config, now, pipeline_history, store, backups,
                 attempted, sent, job_info, pipeline, exc, local_slice, runs,
                 finished, escaped, manuals>>

\* self.pipeline_history[:100]: the truncation keeping the oldest entries.
keep_first(history) == Head_n(history, HistoryLimit)

\* Line 129, right-hand side: self.pipeline_history[-100:], a new list.
keep_last(history) == Tail_n(history, HistoryLimit)

SliceHistory(t) ==
  /\ pc[t] = "slice"
  /\ local_slice' = [local_slice EXCEPT ![t] = keep_last(pipeline_history)]
  /\ pc' = [pc EXCEPT ![t] = "assign"]
  /\ UNCHANGED <<alert_call, health_call, report, cli, batch, history_call,
                 config_file, config, now, pipeline_history, store, backups,
                 attempted, sent, job_info, pipeline, exc, runs, finished,
                 escaped, manuals>>

\* Line 129, the assignment: self.pipeline_history = <the new list>
AssignHistory(t) ==
  /\ pc[t] = "assign"
  /\ pipeline_history' = local_slice[t]
  /\ local_slice' = [local_slice EXCEPT ![t] = << >>]
  /\ pc' = [pc EXCEPT ![t] = "return"]
  /\ UNCHANGED <<alert_call, health_call, report, cli, batch, history_call,
                 config_file, config, now, store, backups, attempted, sent,
                 job_info, pipeline, exc, runs, finished, escaped, manuals>>

\* Line 131: return job_info; the locals of the call are gone.
ReturnJob(t) ==
  /\ pc[t] = "return"
  /\ pc' = [pc EXCEPT ![t] = "idle"]
  /\ job_info' = [job_info EXCEPT ![t] = NoJob]
  /\ pipeline' = [pipeline EXCEPT ![t] = NewPipeline]
  /\ UNCHANGED <<alert_call, health_call, report, cli, batch, history_call,
                 config_file, config, now, pipeline_history, store, backups,
                 attempted, sent, exc, local_slice, runs, finished, escaped,
                 manuals>>

(* --------------------------- specifications --------------------------- *)
\* Sequential calls of run_pipeline_job and run_manual_job, every outcome of the
\* environment, the clock advancing.
Next ==
  \/ Tick
  \/ \E t \in Threads :
       \/ StartJob(t, AllInputs, MaxRuns, MaxRuns, FALSE)
       \/ ConstructPipeline(t, AllInputs)
       \/ Extract(t, AllInputs)
       \/ Validate(t, AllInputs)
       \/ Transform(t, AllInputs)
       \/ Load(t, AllInputs)
       \/ CreateBackup(t, AllInputs)
       \/ FinishPipeline(t, AllInputs)
       \/ RecordOutcome(t, AllInputs)
       \/ HandleError(t, AllInputs)
       \/ AppendHistory(t)
       \/ CheckHistory(t)
       \/ ReturnJob(t)

Spec == Init /\ [][Next]_vars

\* The scheduler constructed with no configuration file (the dashboard's
\* PipelineScheduler() when pipeline_config.yaml is missing): every default.
InitDefault == InitWith({[state |-> "missing", content |-> EmptyDict]}, {NoCall})

\* The steps of a run in which nothing fails.
NominalRun(t) ==
  \/ ConstructPipeline(t, NominalInputs)
  \/ Extract(t, NominalInputs)
  \/ Validate(t, NominalInputs)
  \/ Transform(t, NominalInputs)
  \/ Load(t, NominalInputs)
  \/ CreateBackup(t, NominalInputs)
  \/ FinishPipeline(t, NominalInputs)
  \/ RecordOutcome(t, NominalInputs)
  \/ AppendHistory(t)
  \/ CheckHistory(t)
  \/ SliceHistory(t)
  \/ AssignHistory(t)
  \/ ReturnJob(t)

\* Many sequential runs, one after the other, by the polling loop or by
\* run_manual_job: the history reaches its bound.
NextHist ==
  \E t \in Threads :
    \/ StartJob(t, NominalInputs, MaxRunsH, MaxManual, FALSE)
    \/ NominalRun(t)

SpecHist == InitDefault /\ [][NextHist]_vars

\* The polling loop runs jobs while the dashboard's /run-job route starts
\* run_manual_job on a thread of its own: the steps of the two interleave.
\* Overlapping runs are explored once the history is full; until then line 129
\* is never reached and the runs are taken one after the other.
NextConc ==
  \E t \in Threads :
    \/ StartJob(t, NominalInputs, MaxRunsH, MaxManual,
                Len(pipeline_history) >= HistoryLimit)
    \/ NominalRun(t)

SpecConc == InitDefault /\ [][NextConc]_vars

(* ---------------- should_send_alert as a function of its input -------- *)
\* Job runs as should_send_alert may receive them: any final status, with or
\* without a processing time and metrics.
AlertJobs ==
  { [NoJob EXCEPT
       !.seq = 1,
       !.status = st,
       !.end_time = Some(Get(pt, 0)),
       !.processing_time = pt,
       !.metrics = m] :
      st \in {"completed", "failed", "error"},
      pt \in {Absent} \cup {Some(d) : d \in {0, 1, 2, 300, 301}},
      m \in {Absent} \cup
            {Some(get_summary([NewMonitor EXCEPT !.records_processed = n,
                                                 !.records_failed = f])) :
               n \in {0, 1, 20, 100}, f \in {0, 1, 6}} }

\* The alert conditions of the configuration: thresholds given or left to
\* their defaults.
AlertConfigs ==
  { [EmptyDict EXCEPT
       !.alerts = "dict",
       !.alerts_enabled = Some(TRUE),
       !.email_enabled = Some(TRUE),
       !.processing_time_threshold = pt,
       !.error_rate_threshold = er] :
      pt \in {Absent, Some(0), Some(1)},
      er \in {Absent, Some(0), Some(50)} }

InitAlert ==
  InitWith({[state |-> "valid", content |-> c] : c \in AlertConfigs},
           {[NoCall EXCEPT !.job = j] : j \in AlertJobs})

\* self.should_send_alert(job_info), line 143
CallShouldSendAlert ==
  /\ ~alert_call.called
  /\ alert_call' = [alert_call EXCEPT !.called = TRUE]
  /\ UNCHANGED <<health_call, report, cli, batch, history_call, config_file,
                 config, now, pipeline_history, store, backups, attempted, sent,
                 pc, job_info, pipeline, exc, local_slice, runs, finished,
                 escaped, manuals>>

ReturnShouldSendAlert ==
  /\ alert_call.called /\ ~alert_call.returned
  /\ alert_call' = [alert_call EXCEPT
                      !.returned = TRUE,
                      !.result = should_send_alert(alert_call.job, config)]
  /\ UNCHANGED <<health_call, report, cli, batch, history_call, config_file,
                 config, now, pipeline_history, store, backups, attempted, sent,
                 pc, job_info, pipeline, exc, local_slice, runs, finished,
                 escaped, manuals>>

NextAlert == CallShouldSendAlert \/ ReturnShouldSendAlert

SpecAlert == InitAlert /\ [][NextAlert]_vars

(* ------------ run_pipeline_job, one assignment after the other -------- *)
\* Lines 94-95: end_time and status are written first.
SetStatus(t) ==
  /\ pc[t] = "outcome"
  /\ job_info' = [job_info EXCEPT ![t] =
       [@ EXCEPT !.end_time = Some(now),
                 !.status = status_of(pipeline[t].result = "true")]]
  /\ pc' = [pc EXCEPT ![t] = "metrics"]
  /\ UNCHANGED <<alert_call, health_call, report, cli, batch, history_call,
                 config_file, config, now, pipeline_history, store, backups,
                 attempted, sent, pipeline, exc, local_slice, runs, finished,
                 escaped, manuals>>

\* Lines 96-108: processing_time and metrics are written after the status,
\* then the alert is looked at.
SetMetrics(t, In) ==
  /\ pc[t] = "metrics"
  /\ \E smtp_ok \in In.smtp_ok :
       LET job == [job_info[t] EXCEPT
                     !.processing_time = Some(Get(job_info[t].end_time, 0) - job_info[t].start_time),
                     !.metrics = Some(get_summary(pipeline[t].monitor))] IN
       /\ job_info' = [job_info EXCEPT ![t] = job]
       /\ IF alerts_enabled_raises(config)
          THEN /\ exc' = [exc EXCEPT ![t] = "AttributeError"]
               /\ pc' = [pc EXCEPT ![t] = "except"]
               /\ UNCHANGED <<attempted, sent>>
          ELSE /\ IF alerts_enabled(config) THEN SendAlert(job, smtp_ok)
                  ELSE UNCHANGED <<attempted, sent>>
               /\ pc' = [pc EXCEPT ![t] = "append"]
               /\ UNCHANGED exc
  /\ UNCHANGED <<alert_call, health_call, report, cli, batch, history_call,
                 config_file, config, now, pipeline_history, store, backups,
                 pipeline, local_slice, runs, finished, escaped, manuals>>

\* Lines 111-112, in the except clause: end_time and status.
SetErrorStatus(t) ==
  /\ pc[t] = "except"
  /\ job_info' = [job_info EXCEPT ![t] =
       [@ EXCEPT !.end_time = Some(now), !.status = "error"]]
  /\ pc' = [pc EXCEPT ![t] = "error_detail"]
  /\ UNCHANGED <<alert_call, health_call, report, cli, batch, history_call,
                 config_file, config, now, pipeline_history, store, backups,
                 attempted, sent, pipeline, exc, local_slice, runs, finished,
                 escaped, manuals>>

\* Lines 113-122: error and processing_time, then the alert; reading
\* monitoring.alerts.enabled may raise out of the call.
SetErrorDetail(t, In) ==
  /\ pc[t] = "error_detail"
  /\ \E smtp_ok \in In.smtp_ok :
       LET job == [job_info[t] EXCEPT
                     !.error = Some(exc[t]),
                     !.processing_time = Some(Get(job_info[t].end_time, 0) - job_info[t].start_time)] IN
       /\ IF alerts_enabled_raises(config)
          THEN /\ escaped' = escaped \cup {job.seq}
               /\ pc' = [pc EXCEPT ![t] = "idle"]
               /\ job_info' = [job_info EXCEPT ![t] = NoJob]
               /\ pipeline' = [pipeline EXCEPT ![t] = NewPipeline]
               /\ UNCHANGED <<attempted, sent>>
          ELSE /\ IF alerts_enabled(config) THEN SendAlert(job, smtp_ok)
                  ELSE UNCHANGED <<attempted, sent>>
               /\ job_info' = [job_info EXCEPT ![t] = job]
               /\ pc' = [pc EXCEPT ![t] = "append"]
               /\ UNCHANGED <<escaped, pipeline>>
  /\ exc' = [exc EXCEPT ![t] = ""]
  /\ UNCHANGED <<alert_call, health_call, report, cli, batch, history_call,
                 config_file, config, now, pipeline_history, store, backups,
                 local_slice, runs, finished, manuals>>

\* A reachable source and a valid batch; the environment asked for, the loads
\* and the mail transport may go either way.
StepInputs ==
  [NominalInputs EXCEPT !.environments = Environments,
                        !.load_ok = BOOLEAN,
                        !.smtp_ok = BOOLEAN]

\* Sequential runs, each write of job_info a step of its own.
NextSteps ==
  \E t \in Threads :
    \/ StartJob(t, StepInputs, MaxRuns, MaxRuns, FALSE)
    \/ ConstructPipeline(t, StepInputs)
    \/ Extract(t, StepInputs)
    \/ Validate(t, StepInputs)
    \/ Transform(t, StepInputs)
    \/ Load(t, StepInputs)
    \/ CreateBackup(t, StepInputs)
    \/ FinishPipeline(t, StepInputs)
    \/ SetStatus(t)
    \/ SetMetrics(t, StepInputs)
    \/ SetErrorStatus(t)
    \/ SetErrorDetail(t, StepInputs)
    \/ AppendHistory(t)
    \/ CheckHistory(t)
    \/ ReturnJob(t)

SpecSteps == Init /\ [][NextSteps]_vars

(* ----------------- PipelineMonitor of pipeline_scheduler.py ----------- *)
\* PipelineScheduler.get_pipeline_status
get_pipeline_status(history, is_running) ==
  [scheduler_running |-> is_running,
   current_job |-> Absent,
   total_jobs |-> Len(history),
   successful_jobs |->
     Cardinality({i \in 1..Len(history) : history[i].status = "completed"}),
   failed_jobs |->
     Cardinality({i \in 1..Len(history) :
                    history[i].status \in {"failed", "error"}}),
   last_job |-> IF history # << >> THEN Some(Last(history)) ELSE Absent]

\* Lines 360-379 of calculate_overall_health: the score. system_metrics is
\* Absent for the empty dict collect_system_metrics returns on failure.
health_score(system_metrics, database_health, pipeline_status) ==
  LET sm == Get(system_metrics, [cpu_percent |-> 0, memory_percent |-> 0,
                                 disk_percent |-> 0])
      cpu == IF system_metrics # Absent /\ sm.cpu_percent > 80 THEN 10 ELSE 0
      memory == IF system_metrics # Absent /\ sm.memory_percent > 90 THEN 10 ELSE 0
      disk == IF system_metrics # Absent /\ sm.disk_percent > 90 THEN 10 ELSE 0
      database == IF database_health.status # "healthy" THEN 40 ELSE 0
      failed == IF pipeline_status.failed_jobs > 0 THEN 15 ELSE 0
      stopped == IF ~pipeline_status.scheduler_running THEN 15 ELSE 0
  IN  100 - cpu - memory - disk - database - failed - stopped

\* calculate_overall_health reporting healthy only above 80.
calculate_overall_health_above_80(system_metrics, database_health, pipeline_status) ==
  LET health_score_ == health_score(system_metrics, database_health, pipeline_status)
  IN  IF health_score_ > 80 THEN "healthy"
      ELSE IF health_score_ >= 60 THEN "warning"
      ELSE "critical"

\* PipelineMonitor.calculate_overall_health, for a database_health that is a
\* dict.
calculate_overall_health(system_metrics, database_health, pipeline_status) ==
  LET health_score_ == health_score(system_metrics, database_health, pipeline_status)
  IN  IF health_score_ >= 80 THEN "healthy"
      ELSE IF health_score_ >= 60 THEN "warning"
      ELSE "critical"

\* database_health.get('status') raises AttributeError when check_database_health
\* returned None.
calculate_overall_health_raises(database_health) == database_health.kind # "dict"

\* What psutil may report: percentages around the limits of the score.
SystemMetrics ==
  {Absent} \cup
  {Some([cpu_percent |-> c, memory_percent |-> m, disk_percent |-> d]) :
     c \in {50, 80, 85}, m \in {50, 90, 91}, d \in {50, 90, 91}}

\* The calls of calculate_overall_health looked at.
HealthCalls ==
  { [NoHealthCall EXCEPT
       !.system_metrics = sm,
       !.database_health = db,
       !.pipeline_status = [NoStatus EXCEPT !.scheduler_running = running,
                                            !.failed_jobs = failed,
                                            !.total_jobs = 2]] :
      sm \in SystemMetrics,
      db \in {HealthyStore("sqlite"), UnhealthyStore("sqlite", "OperationalError")},
      running \in BOOLEAN,
      failed \in {0, 1, 2} }

InitHealth ==
  /\ InitScheduler({[state |-> "missing", content |-> EmptyDict]})
  /\ alert_call = NoCall
  /\ health_call \in HealthCalls
  /\ report = NoReport
  /\ cli = NoCli
  /\ batch = NoBatch
  /\ history_call = NoHistoryCall

\* self.calculate_overall_health(system_metrics, database_health,
\* pipeline_status), line 353
CallCalculateOverallHealth ==
  /\ ~health_call.called
  /\ health_call' = [health_call EXCEPT !.called = TRUE]
  /\ UNCHANGED <<alert_call, report, cli, batch, history_call, config_file,
                 config, now, pipeline_history, store, backups, attempted, sent,
                 pc, job_info, pipeline, exc, local_slice, runs, finished,
                 escaped, manuals>>

ReturnCalculateOverallHealth ==
  /\ health_call.called /\ ~health_call.returned
  /\ health_call' = [health_call EXCEPT
       !.returned = TRUE,
       !.result = calculate_overall_health(health_call.system_metrics,
                                           health_call.database_health,
                                           health_call.pipeline_status)]
  /\ UNCHANGED <<alert_call, report, cli, batch, history_call, config_file,
                 config, now, pipeline_history, store, backups, attempted, sent,
                 pc, job_info, pipeline, exc, local_slice, runs, finished,
                 escaped, manuals>>

NextHealth == CallCalculateOverallHealth \/ ReturnCalculateOverallHealth

SpecHealth == InitHealth /\ [][NextHealth]_vars

(* ------------- PipelineMonitor.generate_health_report ----------------- *)
\* The configuration files the monitor may be started with: the development
\* environment (the one check_database_health asks for) on any database type.
MonitorConfigFiles ==
  {[state |-> "missing", content |-> EmptyDict],
   [state |-> "empty", content |-> EmptyDict]}
  \cup {[state |-> "valid",
         content |-> [EmptyDict EXCEPT !.target_database[DefaultEnvironment] = db]] :
          db \in {Absent, Some("sqlite"), Some("postgresql"), Some("mysql")}}

\* PipelineMonitor.check_database_health. sqlite_ok tells whether connecting
\* and counting the patients succeed. raised is the exception that leaves the
\* function: when create_pipeline_config raises, the except clause reads
\* config.target_database of a config that was never bound. value is what is
\* returned: None for a database that is neither sqlite nor postgresql.
check_database_health(cfg, sqlite_ok) ==
  IF create_pipeline_config_raises(cfg)
  THEN [raised |-> "UnboundLocalError", value |-> NoneStore]
  ELSE LET db == create_pipeline_config(cfg, DefaultEnvironment).target_database IN
       [raised |-> "none",
        value |-> CASE db = "sqlite" /\ sqlite_ok -> HealthyStore("sqlite")
                    [] db = "sqlite" /\ ~sqlite_ok ->
                         UnhealthyStore("sqlite", "OperationalError")
                    [] db = "postgresql" -> HealthyStore("postgresql")
                    [] OTHER -> NoneStore]

\* Line 344: collect_system_metrics, {} when psutil fails.
CollectSystemMetrics ==
  /\ report.pc = "idle"
  /\ \E sm \in SystemMetrics :
       report' = [report EXCEPT !.system_metrics = sm, !.pc = "database"]
  /\ UNCHANGED <<alert_call, health_call, cli, batch, history_call, config_file,
                 config, now, pipeline_history, store, backups, attempted, sent,
                 pc, job_info, pipeline, exc, local_slice, runs, finished,
                 escaped, manuals>>

\* Line 345: check_database_health; its exception ends generate_health_report.
CheckDatabaseHealth ==
  /\ report.pc = "database"
  /\ \E sqlite_ok \in BOOLEAN :
       LET r == check_database_health(config, sqlite_ok) IN
       report' = IF r.raised # "none"
                 THEN [report EXCEPT !.raised = r.raised, !.pc = "raised"]
                 ELSE [report EXCEPT !.database_health = r.value, !.pc = "status"]
  /\ UNCHANGED <<alert_call, health_call, cli, batch, history_call, config_file,
                 config, now, pipeline_history, store, backups, attempted, sent,
                 pc, job_info, pipeline, exc, local_slice, runs, finished,
                 escaped, manuals>>

\* Lines 346-356: get_pipeline_status and calculate_overall_health. is_running
\* is False here: only run_scheduler sets it, and neither main's --monitor
\* branch nor the dashboard calls run_scheduler.
FinishReport ==
  /\ report.pc = "status"
  /\ LET pipeline_status == get_pipeline_status(pipeline_history, FALSE) IN
     report' =
       IF calculate_overall_health_raises(report.database_health)
       THEN [report EXCEPT !.pipeline_status = pipeline_status,
                           !.raised = "AttributeError", !.pc = "raised"]
       ELSE [report EXCEPT
               !.pipeline_status = pipeline_status,
               !.overall_health =
                  calculate_overall_health(report.system_metrics,
                                           report.database_health, pipeline_status),
               !.pc = "done"]
  /\ UNCHANGED <<alert_call, health_call, cli, batch, history_call, config_file,
                 config, now, pipeline_history, store, backups, attempted, sent,
                 pc, job_info, pipeline, exc, local_slice, runs, finished,
                 escaped, manuals>>

InitReport ==
  /\ InitScheduler(MonitorConfigFiles)
  /\ alert_call = NoCall
  /\ health_call = NoHealthCall
  /\ report = NoReport
  /\ cli = NoCli
  /\ batch = NoBatch
  /\ history_call = NoHistoryCall

NextReport == CollectSystemMetrics \/ CheckDatabaseHealth \/ FinishReport

\* main --monitor, and the dashboard's pages: a health report of a scheduler
\* just constructed.
SpecReport == InitReport /\ [][NextReport]_vars

(* ----------------------- main() of pipeline_scheduler.py -------------- *)
\* Lines 440-441 (420-421 with --manual): job_result is what run_manual_job
\* returned, the job_info appended at line 125; its status is printed, main
\* returns and the interpreter exits with code 0. An exception that leaves
\* run_manual_job ends the interpreter with a traceback and exit code 1.
MainExit ==
  /\ ~cli.exited
  /\ runs = 1
  /\ pc["manual"] = "idle"
  /\ cli' = IF escaped # {}
            THEN [exited |-> TRUE, printed |-> "traceback", exit_code |-> 1]
            ELSE [exited |-> TRUE, printed |-> Last(pipeline_history).status,
                  exit_code |-> 0]
  /\ UNCHANGED <<alert_call, health_call, report, batch, history_call,
                 config_file, config, now, pipeline_history, store, backups,
                 attempted, sent, pc, job_info, pipeline, exc, local_slice,
                 runs, finished, escaped, manuals>>

\* main() running one manual job, with every outcome of the environment.
NextCli ==
  \/ Tick
  \/ MainExit
  \/ \E t \in {"manual"} :
       \/ StartJob(t, AllInputs, 1, 1, FALSE)
       \/ ConstructPipeline(t, AllInputs)
       \/ Extract(t, AllInputs)
       \/ Validate(t, AllInputs)
       \/ Transform(t, AllInputs)
       \/ Load(t, AllInputs)
       \/ CreateBackup(t, AllInputs)
       \/ FinishPipeline(t, AllInputs)
       \/ RecordOutcome(t, AllInputs)
       \/ HandleError(t, AllInputs)
       \/ AppendHistory(t)
       \/ CheckHistory(t)
       \/ ReturnJob(t)

SpecCli == Init /\ [][NextCli]_vars

\* The same, every step that can be taken being taken eventually: no call in
\* the code blocks for ever or is interrupted.
SpecLive == Init /\ [][NextCli]_vars /\ WF_vars(NextCli)

(* ------------- a batch through DataValidator and DataTransformer ------ *)
\* A Name is [id, last]: id tells names apart, last tells whether the name has
\* a second word; NullName is a missing value (NaN).
NullName == [id |-> 0 - 1, last |-> FALSE]

\* validate_patient_data, line 58
RequiredPatientColumns == {"Name", "Age", "Gender", "Insurance Provider"}
\* validate_patient_data, line 70
ValidGenders == {"Male", "Female", "M", "F"}
\* validate_admission_data, line 95
RequiredAdmissionColumns == {"Date of Admission", "Discharge Date", "Admission Type"}
\* validate_admission_data, line 116
ValidAdmissionTypes == {"Emergency", "Elective", "Urgent", "Transfer"}

\* df[c] as the sequence of its values
Column(df, c) == [i \in 1..Len(df.rows) |-> df.rows[i][c]]

\* df[c] = values for a column that may be new
WithColumn(df, c, values) ==
  [columns |-> df.columns \cup {c},
   rows |-> [i \in 1..Len(df.rows) |->
               [x \in df.columns \cup {c} |->
                  IF x = c THEN values[i] ELSE df.rows[i][x]]]]

\* Series.duplicated().sum(): the rows whose value occurred in an earlier row
duplicated_sum(values) ==
  Len(values) - Cardinality({values[i] : i \in 1..Len(values)})

\* DataValidator.validate_patient_data: the issues, one tag for each.
validate_patient_data(df) ==
  LET n == Len(df.rows)
      missing == IF RequiredPatientColumns \ df.columns # {}
                 THEN <<"missing_columns">> ELSE << >>
      ages == IF "Age" \in df.columns /\ \E i \in 1..n : df.rows[i]["Age"] < 0
              THEN <<"negative_age">> ELSE << >>
      genders == IF /\ "Gender" \in df.columns
                    /\ \E i \in 1..n : df.rows[i]["Gender"] \notin ValidGenders
                 THEN <<"invalid_gender">> ELSE << >>
      duplicates == IF "Name" \in df.columns
                    THEN duplicated_sum(Column(df, "Name")) ELSE 0
      names == IF duplicates > 0 /\ 2 * duplicates > n
               THEN <<"duplicate_names">> ELSE << >>
  IN  missing \o ages \o genders \o names

\* DataValidator.validate_admission_data: the issues, and the frame it was
\* given as the function leaves it: lines 102-103 assign two columns to df
\* itself. today is datetime.now().
validate_admission_data(df, today) ==
  LET n == Len(df.rows)
      dated == {"Date of Admission", "Discharge Date"} \subseteq df.columns
      df1 == IF dated
             THEN WithColumn(
                    WithColumn(df, "admission_date", Column(df, "Date of Admission")),
                    "discharge_date", Column(df, "Discharge Date"))
             ELSE df
      missing == IF RequiredAdmissionColumns \ df.columns # {}
                 THEN <<"missing_columns">> ELSE << >>
      future == IF dated /\ \E i \in 1..n : df1.rows[i]["admission_date"] > today
                THEN <<"future_admission">> ELSE << >>
      discharge == IF /\ dated
                      /\ \E i \in 1..n :
                           df1.rows[i]["discharge_date"] < df1.rows[i]["admission_date"]
                   THEN <<"discharge_before_admission">> ELSE << >>
      types == IF /\ "Admission Type" \in df.columns
                  /\ \E i \in 1..n :
                       df.rows[i]["Admission Type"] \notin ValidAdmissionTypes
               THEN <<"invalid_admission_type">> ELSE << >>
  IN  [errors |-> missing \o future \o discharge \o types, df |-> df1]

\* DataValidator.validate_financial_data: both checks are made only when the
\* batch has a 'Billing Amount' column; the batches followed here have none.
validate_financial_data(df) == << >>

\* The gender_mapping of clean_patient_data with .fillna('Unknown')
gender_mapping(label) ==
  CASE label \in {"Male", "MALE"} -> "M"
    [] label \in {"Female", "FEMALE"} -> "F"
    [] OTHER -> "Unknown"

\* str.title() on the admission types that occur
title(label) ==
  CASE label \in {"emergency", "EMERGENCY"} -> "Emergency"
    [] label \in {"elective", "ELECTIVE"} -> "Elective"
    [] OTHER -> label

\* DataTransformer.clean_patient_data: the exception it raises ("none" if
\* none) and the frame it returns. name_parts has a column 1 only if some name
\* in the batch has a second word (never for an empty batch); df_clean['Name']
\* is read whether or not the column exists; x.encode() fails on a missing
\* value.
clean_patient_data(df) ==
  LET n == Len(df.rows)
      has_name == "Name" \in df.columns
      names == IF has_name THEN Column(df, "Name") ELSE << >>
      raised ==
        CASE has_name /\ ~\E i \in 1..n : names[i].last -> "KeyError"
          [] ~has_name -> "KeyError"
          [] \E i \in 1..n : names[i] = NullName -> "AttributeError"
          [] OTHER -> "none"
      d1 == IF has_name
            THEN WithColumn(
                   WithColumn(df, "first_name", [i \in 1..n |-> names[i].id]),
                   "last_name",
                   [i \in 1..n |-> IF names[i].last THEN names[i].id ELSE 0])
            ELSE df
      d2 == IF "Gender" \in df.columns
            THEN WithColumn(d1, "Gender",
                            [i \in 1..n |-> gender_mapping(df.rows[i]["Gender"])])
            ELSE d1
      d3 == IF has_name
            THEN WithColumn(d2, "patient_id", [i \in 1..n |-> names[i].id])
            ELSE d2
      d4 == IF "Age" \in df.columns
            THEN WithColumn(d3, "date_of_birth",
                            [i \in 1..n |-> [years_ago |-> df.rows[i]["Age"]]])
            ELSE d3
  IN  [raised |-> raised, df |-> IF raised = "none" THEN d4 ELSE EmptyFrame]

\* DataTransformer.clean_admission_data, for a batch without 'Room Number'.
clean_admission_data(df) ==
  LET n == Len(df.rows)
      d1 == IF {"Date of Admission", "Discharge Date"} \subseteq df.columns
            THEN WithColumn(df, "length_of_stay",
                   [i \in 1..n |-> df.rows[i]["Discharge Date"]
                                     - df.rows[i]["Date of Admission"]])
            ELSE df
  IN  IF "Admission Type" \in df.columns
      THEN WithColumn(d1, "Admission Type",
                      [i \in 1..n |-> title(df.rows[i]["Admission Type"])])
      ELSE d1

\* DataTransformer.clean_financial_data, for a batch without 'Billing Amount':
\* a copy.
clean_financial_data(df) == df

\* HealthcarePipeline.transform_data
transform_data(df) ==
  LET r == clean_patient_data(df) IN
  IF r.raised # "none" THEN r
  ELSE [raised |-> "none",
        df |-> clean_financial_data(clean_admission_data(r.df))]

\* The columns of the source file read by extract_data (no billing columns).
SourceColumns ==
  {"Name", "Age", "Gender", "Insurance Provider", "Date of Admission",
   "Discharge Date", "Admission Type"}

\* A row of the source: this name and sex label, everything else valid.
SourceRow(name, gender) ==
  [c \in SourceColumns |->
     CASE c = "Name" -> name
       [] c = "Age" -> 30
       [] c = "Gender" -> gender
       [] c = "Insurance Provider" -> "Aetna"
       [] c = "Date of Admission" -> 0 - 2
       [] c = "Discharge Date" -> 0 - 1
       [] OTHER -> "Emergency"]

\* The frame read_csv returns for a file with these columns, names and label.
SourceFrame(columns, names, gender) ==
  [columns |-> columns,
   rows |-> [i \in 1..Len(names) |->
               [c \in columns |-> SourceRow(names[i], gender)[c]]]]

\* n two-word names of which the first k are the same one.
SharedNames(n, k) ==
  [i \in 1..n |-> [id |-> IF i <= k THEN 1 ELSE i, last |-> TRUE]]

BatchSizes == {n \in 1..MaxRows : n % 5 = 0}

GenderLabels ==
  {"Male", "Female", "MALE", "FEMALE", "male", "female", "M", "F", "m", "f",
   "Other"}

\* The name columns of small batches: all well-formed, one missing value, no
\* name with a second word, no row at all.
NameColumns ==
  {SharedNames(2, 1),
   <<NullName, [id |-> 2, last |-> TRUE]>>,
   <<[id |-> 1, last |-> FALSE], [id |-> 2, last |-> FALSE]>>,
   << >>}

\* The source files followed: batches in which one name has 40% or 60% of the
\* rows, batches with each sex label, batches lacking columns.
SourceFrames ==
  {SourceFrame(SourceColumns, SharedNames(n, (n * share) \div 100), "Male") :
     n \in BatchSizes, share \in {40, 60}}
  \cup {SourceFrame(SourceColumns, SharedNames(2, 1), g) : g \in GenderLabels}
  \cup {SourceFrame(cols, names, "Female") :
          cols \in {SourceColumns, SourceColumns \ {"Name"},
                    SourceColumns \ {"Date of Admission", "Discharge Date"}},
          names \in NameColumns}

InitBatch ==
  /\ InitScheduler({[state |-> "missing", content |-> EmptyDict]})
  /\ alert_call = NoCall
  /\ health_call = NoHealthCall
  /\ report = NoReport
  /\ cli = NoCli
  /\ history_call = NoHistoryCall
  /\ batch \in {[NoBatch EXCEPT !.pc = "extract", !.source = f,
                                !.validation_enabled = v] :
                  f \in SourceFrames, v \in BOOLEAN}

\* run_pipeline, lines 503-507: df = self.extract_data()
ExtractData ==
  /\ batch.pc = "extract"
  /\ batch' = [batch EXCEPT
                 !.raw = batch.source,
                 !.df = batch.source,
                 !.pc = IF batch.validation_enabled THEN "validate" ELSE "transform"]
  /\ UNCHANGED <<alert_call, health_call, report, cli, history_call, config_file,
                 config, now, pipeline_history, store, backups, attempted, sent,
                 pc, job_info, pipeline, exc, local_slice, runs, finished,
                 escaped, manuals>>

\* run_pipeline, lines 508-510, with validate_data: the three categories are
\* given the same df object, which validate_admission_data writes to.
ValidateData ==
  /\ batch.pc = "validate"
  /\ LET patient_errors == validate_patient_data(batch.df)
         admission == validate_admission_data(batch.df, now)
         financial_errors == validate_financial_data(admission.df)
         errors == patient_errors \o admission.errors \o financial_errors
     IN  batch' = [batch EXCEPT
                     !.df = admission.df,
                     !.issues = errors,
                     !.pc = IF errors = << >> THEN "transform" ELSE "failed"]
  /\ UNCHANGED <<alert_call, health_call, report, cli, history_call, config_file,
                 config, now, pipeline_history, store, backups, attempted, sent,
                 pc, job_info, pipeline, exc, local_slice, runs, finished,
                 escaped, manuals>>

\* run_pipeline, line 513: df_clean = self.transform_data(df)
TransformData ==
  /\ batch.pc = "transform"
  /\ LET r == transform_data(batch.df) IN
     batch' = IF r.raised # "none"
              THEN [batch EXCEPT !.raised = r.raised, !.pc = "raised"]
              ELSE [batch EXCEPT !.clean = r.df, !.pc = "transformed"]
  /\ UNCHANGED <<alert_call, health_call, report, cli, history_call, config_file,
                 config, now, pipeline_history, store, backups, attempted, sent,
                 pc, job_info, pipeline, exc, local_slice, runs, finished,
                 escaped, manuals>>

NextBatch == ExtractData \/ ValidateData \/ TransformData

\* One batch from Extract to Transform.
SpecBatch == InitBatch /\ [][NextBatch]_vars

(* ------------------ main() with --schedule or --manual ---------------- *)
\* The command lines of main(): --manual, --schedule or neither, and
\* --environment.
CliArgs ==
  [mode : {"manual", "schedule", "default"}, environment : Environments]

\* The scheduling section of the configuration file, and the database of the
\* production environment.
ScheduleConfigFiles ==
  {[state |-> "missing", content |-> EmptyDict],
   [state |-> "empty", content |-> EmptyDict]}
  \cup {[state |-> "valid",
         content |-> [EmptyDict EXCEPT !.scheduling_enabled = en,
                                       !.scheduling_interval = iv,
                                       !.target_database["production"] = db]] :
          en \in {Absent, Some(FALSE), Some(TRUE)},
          iv \in {Absent, Some("hourly"), Some("weekly"), Some("monthly"),
                  Some("yearly")},
          db \in {Absent, Some("mysql")}}

\* main() has parsed its arguments and constructed the scheduler. registered
\* tells whether setup_schedule gave the schedule module a job; is_running is
\* the scheduler's attribute.
InitSchedule ==
  /\ InitScheduler(ScheduleConfigFiles)
  /\ alert_call = NoCall
  /\ health_call = NoHealthCall
  /\ report = NoReport
  /\ batch = NoBatch
  /\ history_call = NoHistoryCall
  /\ cli \in {[mode |-> a.mode, environment |-> a.environment, pc |-> "main",
               registered |-> FALSE, is_running |-> FALSE, exited |-> FALSE,
               printed |-> "none", exit_code |-> 0] : a \in CliArgs}

\* setup_schedule, called by main with --schedule. self.config.get raises for a
\* configuration that is None. The job registered is self.run_pipeline_job
\* with no argument. Job.month is not an attribute the source defines: the
\* monthly interval either registers the job or raises, as the installed
\* schedule package decides.
SetupSchedule ==
  /\ cli.pc = "main"
  /\ cli.mode = "schedule"
  /\ ~cli.exited
  /\ IF config.kind # "dict"
     THEN cli' = [cli EXCEPT !.exited = TRUE, !.printed = "traceback",
                             !.exit_code = 1]
     ELSE IF ~Get(config.scheduling_enabled, FALSE)
     THEN cli' = [cli EXCEPT !.pc = "run_scheduler"]
     ELSE LET interval == Get(config.scheduling_interval, "daily") IN
          CASE interval \in {"hourly", "daily", "weekly"} ->
                 cli' = [cli EXCEPT !.registered = TRUE, !.pc = "run_scheduler"]
            [] interval = "monthly" ->
                 \/ cli' = [cli EXCEPT !.registered = TRUE,
                                       !.pc = "run_scheduler"]
                 \/ cli' = [cli EXCEPT !.exited = TRUE, !.printed = "traceback",
                                       !.exit_code = 1]
            [] OTHER -> cli' = [cli EXCEPT !.pc = "run_scheduler"]
  /\ UNCHANGED <<alert_call, health_call, report, batch, history_call,
                 config_file, config, now, pipeline_history, store, backups,
                 attempted, sent, pc, job_info, pipeline, exc, local_slice,
                 runs, finished, escaped, manuals>>

\* run_scheduler, line 250: self.is_running = True, then the polling loop.
RunScheduler ==
  /\ cli.pc = "run_scheduler"
  /\ ~cli.exited
  /\ cli' = [cli EXCEPT !.is_running = TRUE, !.pc = "loop"]
  /\ UNCHANGED <<alert_call, health_call, report, batch, history_call,
                 config_file, config, now, pipeline_history, store, backups,
                 attempted, sent, pc, job_info, pipeline, exc, local_slice,
                 runs, finished, escaped, manuals>>

\* What a run meets: the environment is args.environment for the manual call
\* of main (lines 420 and 440).
ScheduleInputs(t) ==
  [NominalInputs EXCEPT
     !.environments = IF t = "manual" THEN {cli.environment} ELSE Environments]

\* schedule.run_pending() in the polling loop calls the registered job.
RunPending ==
  /\ cli.pc = "loop"
  /\ cli.is_running
  /\ cli.registered
  /\ StartJob("poll", ScheduleInputs("poll"), MaxRuns, 0, FALSE)

\* main without --schedule: scheduler.run_manual_job(args.environment)
RunManualJob ==
  /\ cli.pc = "main"
  /\ cli.mode \in {"manual", "default"}
  /\ ~cli.exited
  /\ StartJob("manual", ScheduleInputs("manual"), 1, 1, FALSE)

\* Lines 421 and 441: the status of the returned job is printed and main
\* returns; an exception that left run_manual_job ends main with a traceback.
MainReturn ==
  /\ cli.pc = "main"
  /\ cli.mode \in {"manual", "default"}
  /\ ~cli.exited
  /\ runs = 1
  /\ pc["manual"] = "idle"
  /\ cli' = IF escaped # {}
            THEN [cli EXCEPT !.exited = TRUE, !.printed = "traceback",
                             !.exit_code = 1]
            ELSE [cli EXCEPT !.exited = TRUE,
                             !.printed = Last(pipeline_history).status]
  /\ UNCHANGED <<alert_call, health_call, report, batch, history_call,
                 config_file, config, now, pipeline_history, store, backups,
                 attempted, sent, pc, job_info, pipeline, exc, local_slice,
                 runs, finished, escaped, manuals>>

NextSchedule ==
  \/ Tick
  \/ SetupSchedule
  \/ RunScheduler
  \/ RunPending
  \/ RunManualJob
  \/ MainReturn
  \/ \E t \in Threads :
       \/ ConstructPipeline(t, ScheduleInputs(t))
       \/ Extract(t, ScheduleInputs(t))
       \/ Validate(t, ScheduleInputs(t))
       \/ Transform(t, ScheduleInputs(t))
       \/ Load(t, ScheduleInputs(t))
       \/ CreateBackup(t, ScheduleInputs(t))
       \/ FinishPipeline(t, ScheduleInputs(t))
       \/ RecordOutcome(t, ScheduleInputs(t))
       \/ HandleError(t, ScheduleInputs(t))
       \/ AppendHistory(t)
       \/ CheckHistory(t)
       \/ ReturnJob(t)

\* main() of pipeline_scheduler.py in its job-running modes.
SpecSchedule == InitSchedule /\ [][NextSchedule]_vars

(* ------------------ get_job_history and /api/jobs --------------------- *)
\* s[-n:] of a Python list for any integer n: -0 is 0, so s[-0:] is the whole
\* list; for a negative n it is s[|n|:].
PySliceFromMinus(s, n) ==
  CASE n > 0 -> Tail_n(s, n)
    [] n = 0 -> s
    [] OTHER -> IF 0 - n >= Len(s) THEN << >> ELSE SubSeq(s, 1 - n, Len(s))

\* PipelineScheduler.get_job_history
get_job_history(history, limit) ==
  IF history # << >> THEN PySliceFromMinus(history, limit) ELSE << >>

\* The limits a request to /api/jobs may carry (request.args.get with
\* type=int accepts any integer).
Limits == (0 - 1)..MaxLimit

\* The dashboard's scheduler: no file, or one with an unsupported production
\* database.
DashboardConfigFiles ==
  {[state |-> "missing", content |-> EmptyDict],
   [state |-> "valid",
    content |-> [EmptyDict EXCEPT !.target_database["production"] = Some("mysql")]]}

InitDashboard ==
  /\ InitScheduler(DashboardConfigFiles)
  /\ alert_call = NoCall
  /\ health_call = NoHealthCall
  /\ report = NoReport
  /\ cli = NoCli
  /\ batch = NoBatch
  /\ history_call = NoHistoryCall

\* api_jobs: scheduler.get_job_history(limit); the result is serialised.
ApiJobs ==
  /\ \E limit \in Limits :
       history_call' = [limit |-> limit, called |-> TRUE, returned |-> TRUE,
                        result |-> get_job_history(pipeline_history, limit)]
  /\ UNCHANGED <<alert_call, health_call, report, cli, batch, config_file,
                 config, now, pipeline_history, store, backups, attempted, sent,
                 pc, job_info, pipeline, exc, local_slice, runs, finished,
                 escaped, manuals>>

\* The runs the dashboard's /run-job starts, for either environment.
DashboardInputs == [NominalInputs EXCEPT !.environments = Environments]

NextDashboard ==
  \/ Tick
  \/ ApiJobs
  \/ \E t \in {"manual"} :
       \/ StartJob(t, DashboardInputs, MaxRuns, MaxRuns, FALSE)
       \/ ConstructPipeline(t, DashboardInputs)
       \/ Extract(t, DashboardInputs)
       \/ Validate(t, DashboardInputs)
       \/ Transform(t, DashboardInputs)
       \/ Load(t, DashboardInputs)
       \/ CreateBackup(t, DashboardInputs)
       \/ FinishPipeline(t, DashboardInputs)
       \/ RecordOutcome(t, DashboardInputs)
       \/ HandleError(t, DashboardInputs)
       \/ AppendHistory(t)
       \/ CheckHistory(t)
       \/ ReturnJob(t)

\* The dashboard: manual runs one after another, and requests to /api/jobs.
SpecDashboard == InitDashboard /\ [][NextDashboard]_vars

(* ------------------------------ properties ---------------------------- *)
Range(s) == {s[i] : i \in 1..Len(s)}

\* No call of run_pipeline_job is in progress.
Quiescent == \A t \in Threads : pc[t] = "idle"

\* The job_info of context t is final: the call is at line 125 or after it.
Returning(t) == pc[t] \in {"append", "check", "slice", "assign", "return"}

\* The job_info of context t has been appended by line 125.
Appended(t) == pc[t] \in {"check", "slice", "assign", "return"}

\* The alert conditions as the specification states them: status failed or
\* error, processing time above the threshold, error rate above the threshold.
ProcessingTimeExceeds(job, cfg) ==
  Get(job.processing_time, 0)
    > Get(cfg.processing_time_threshold, DefaultProcessingTimeThreshold)

ErrorRateExceeds(job, cfg) ==
  LET sr == SuccessRateOf(job) IN
  100 * sr.den - sr.num
    > Get(cfg.error_rate_threshold, DefaultErrorRateThreshold) * sr.den

AlertCondition(job, cfg) ==
  \/ job.status \in {"failed", "error"}
  \/ ProcessingTimeExceeds(job, cfg)
  \/ ErrorRateExceeds(job, cfg)

\* Alerting is switched on: monitoring.alerts.enabled and
\* monitoring.alerts.email.enabled are both true.
AlertingOn(cfg) ==
  /\ cfg.alerts = "dict"
  /\ Get(cfg.alerts_enabled, FALSE)
  /\ Get(cfg.email_enabled, FALSE)

\* C1: after any sequence of sequential calls, the history holds the most
\* recent min(n, 100) runs, in the order they finished, and no more than 100.
C1_HistoryKeepsLast100 ==
  Quiescent =>
    LET n == Len(finished)
        k == Min(n, HistoryLimit)
    IN  /\ Len(pipeline_history) = k
        /\ \A i \in 1..k : pipeline_history[i].seq = finished[n - k + i]

\* Two runs more than the bound have finished: the two oldest are gone.
C1_Witness ==
  /\ Quiescent
  /\ Len(finished) = HistoryLimit + 2
  /\ Len(pipeline_history) = HistoryLimit
  /\ pipeline_history[1].seq = 3
  /\ Last(pipeline_history).seq = HistoryLimit + 2

\* Validation is enabled and some category of this run reported passed=False.
ValidationFailed(t) ==
  /\ job_info[t].config.validation_enabled
  /\ "validate" \in Range(pipeline[t].stages)
  /\ ~pipeline[t].is_valid

\* C2: when validation is enabled and a category reports passed=False,
\* run_pipeline returns False without attempting Transform, Load or Backup, the
\* store and the backups are as they were when the run started, and the job run
\* has status failed.
C2_ValidationFailureBlocksLoad ==
  \A t \in Threads :
    ValidationFailed(t) =>
      /\ pipeline[t].result = "false"
      /\ Range(pipeline[t].stages) \cap {"transform", "load", "backup"} = {}
      /\ store = pipeline[t].store_before
      /\ job_info[t].seq \notin backups
      /\ Returning(t) => job_info[t].status = "failed"

\* A second run fails validation and leaves the rows of the first run alone.
C2_Witness ==
  \E t \in Threads :
    /\ pc[t] = "return"
    /\ ValidationFailed(t)
    /\ job_info[t].status = "failed"
    /\ job_info[t].seq = 2
    /\ store # {}

\* C3: an unexpected error raised at a stage of the orchestrator gives a job
\* run with status error and the exception detail in its error field.
C3_StageErrorGivesStatusError ==
  \A t \in Threads :
    Returning(t) /\ pipeline[t].raised \in {"extract", "validate", "transform"} =>
      /\ job_info[t].status = "error"
      /\ job_info[t].error # Absent

\* C4: no call of run_pipeline_job ends by raising, and every call returns a
\* job run with a final status that is the last entry of the history.
C4_RunJobNeverRaises ==
  /\ escaped = {}
  /\ \A t \in Threads :
       pc[t] = "return" =>
         /\ job_info[t].status \in {"completed", "failed", "error"}
         /\ Last(pipeline_history) = job_info[t]

\* end_time >= start_time and processing_time = end_time - start_time
TimesConsistent(job) ==
  /\ job.end_time # Absent
  /\ job.processing_time # Absent
  /\ Get(job.end_time, 0) >= job.start_time
  /\ Get(job.processing_time, 0) = Get(job.end_time, 0) - job.start_time

\* C5: every job run returned by run_pipeline_job, whatever its status, ends
\* no earlier than it started and its processing time is the difference.
C5_TimesConsistent ==
  /\ \A t \in Threads : Returning(t) => TimesConsistent(job_info[t])
  /\ \A i \in 1..Len(pipeline_history) : TimesConsistent(pipeline_history[i])

\* A run that ended in the except clause a second after it started.
C5_Witness ==
  \E i \in 1..Len(pipeline_history) :
    /\ pipeline_history[i].status = "error"
    /\ pipeline_history[i].processing_time = Some(1)

\* C6: with runs of the polling loop and of a manual thread interleaved, once
\* all runs have finished every run among the 100 that finished last is in the
\* history.
C6_NoAppendLost ==
  Quiescent =>
    LET n == Len(finished)
        k == Min(n, HistoryLimit)
    IN  \A i \in (n - k + 1)..n :
          \E j \in 1..Len(pipeline_history) : pipeline_history[j].seq = finished[i]

\* C7: every load attempts the three sub-entity loads, each successful one
\* writing its table whatever the others did; the result is their conjunction;
\* when it is false run_pipeline returns False without having raised and the
\* job run is failed.
C7_LoadAttemptsAll ==
  \A t \in Threads :
    LET p == pipeline[t]
        all_ok == \A i \in 1..Len(p.loads) : p.loads[i]
    IN  "load" \in Range(p.stages) =>
          /\ Len(p.loads) = Len(LoadOrder)
          /\ \A i \in 1..Len(p.loads) :
               p.loads[i] <=>
                 [table |-> LoadOrder[i], run |-> job_info[t].seq] \in store
          /\ ~all_ok =>
               /\ p.result = "false"
               /\ p.raised = "none"
               /\ Returning(t) => job_info[t].status = "failed"
          /\ all_ok => (p.result # "false" \/ p.raised = "save_metrics")

\* The patients load failed, the two after it were done, the run is failed.
C7_Witness ==
  \E t \in Threads :
    /\ pc[t] = "return"
    /\ pipeline[t].loads = <<FALSE, TRUE, TRUE>>
    /\ [table |-> "financial_data", run |-> job_info[t].seq] \in store
    /\ job_info[t].status = "failed"

\* C8 as stated: after each run whose job run satisfies an alert condition a
\* notification has been sent through the transport.
C8_AlertAlwaysSent ==
  \A t \in Threads :
    Returning(t) /\ AlertCondition(job_info[t], config) => job_info[t].seq \in sent

\* C8, amended: after each run whose job run satisfies an alert condition,
\* with alerting switched on, a notification has been handed to the transport
\* (which may fail to deliver it).
C8_AlertAttemptedWhenOn ==
  \A t \in Threads :
    Returning(t) /\ AlertCondition(job_info[t], config) /\ AlertingOn(config) =>
      job_info[t].seq \in attempted

\* A completed run that took longer than the threshold, and its alert delivered.
C8_Witness ==
  \E t \in Threads :
    /\ pc[t] = "return"
    /\ job_info[t].status = "completed"
    /\ ProcessingTimeExceeds(job_info[t], config)
    /\ AlertingOn(config)
    /\ job_info[t].seq \in sent

\* The status the outcome of the orchestrator determines.
OutcomeStatus(p) ==
  CASE p.result = "true" -> "completed"
    [] p.result = "false" -> "failed"
    [] OTHER -> "error"

\* C9: the job run recorded in the history has the status the orchestrator's
\* outcome determined (completed when run_pipeline returned True, failed when
\* it returned False, error when the pipeline could not be built), whether or
\* not an alert was due and whether or not its delivery failed.
C9_AlertNeverChangesStatus ==
  \A t \in Threads :
    Appended(t) =>
      /\ Last(pipeline_history) = job_info[t]
      /\ job_info[t].status = OutcomeStatus(pipeline[t])

\* The alert of a completed run could not be delivered; the run is completed.
C9_Witness ==
  \E t \in Threads :
    /\ pc[t] = "return"
    /\ job_info[t].status = "completed"
    /\ job_info[t].seq \in attempted \ sent
    /\ Last(pipeline_history) = job_info[t]

\* C10: should_send_alert is true for status failed or error whatever the
\* timing and metrics, true for a completed run whose processing time exceeds
\* the threshold, true for a completed run whose error rate exceeds the
\* threshold, and false for a completed run with both within the thresholds.
C10_ShouldAlert ==
  alert_call.returned =>
    LET job == alert_call.job IN
    /\ job.status \in {"failed", "error"} => alert_call.result
    /\ job.status = "completed" /\ ProcessingTimeExceeds(job, config)
         => alert_call.result
    /\ job.status = "completed" /\ ErrorRateExceeds(job, config)
         => alert_call.result
    /\ job.status = "completed" /\ ~ProcessingTimeExceeds(job, config)
         /\ ~ErrorRateExceeds(job, config)
         => ~alert_call.result

\* A completed run exactly at the processing-time threshold, with a failed
\* record but an error rate within the threshold: no alert.
C10_Witness ==
  /\ alert_call.returned
  /\ alert_call.job.status = "completed"
  /\ alert_call.job.processing_time = Some(1)
  /\ config.processing_time_threshold = Some(1)
  /\ alert_call.job.metrics # Absent
  /\ Get(alert_call.job.metrics, 0).records_failed = 1
  /\ ~alert_call.result

\* The score as the specification states it: 100, less 10 for each of cpu > 80,
\* memory > 90 and disk > 90, less 40 for an unhealthy store, less 15 for a
\* failed or error job in the history, less 15 for a scheduler not running.
StatedScore(c) ==
  LET sm == Get(c.system_metrics, [cpu_percent |-> 0, memory_percent |-> 0,
                                   disk_percent |-> 0])
  IN  100 - (IF sm.cpu_percent > 80 THEN 10 ELSE 0)
          - (IF sm.memory_percent > 90 THEN 10 ELSE 0)
          - (IF sm.disk_percent > 90 THEN 10 ELSE 0)
          - (IF c.database_health.status = "unhealthy" THEN 40 ELSE 0)
          - (IF c.pipeline_status.failed_jobs >= 1 THEN 15 ELSE 0)
          - (IF c.pipeline_status.scheduler_running THEN 0 ELSE 15)

\* C11: calculate_overall_health answers healthy when the stated score is at
\* least 80, warning when it is 60..79 and critical below 60; cpu = 85 with
\* everything else fine and the scheduler running is healthy, and an unhealthy
\* store with one failed job is critical.
C11_OverallHealth ==
  health_call.returned =>
    LET c == health_call
        score == StatedScore(c)
    IN  /\ score >= 80 => c.result = "healthy"
        /\ score >= 60 /\ score <= 79 => c.result = "warning"
        /\ score < 60 => c.result = "critical"
        /\ ( /\ c.system_metrics = Some([cpu_percent |-> 85, memory_percent |-> 50,
                                          disk_percent |-> 50])
             /\ c.database_health.status = "healthy"
             /\ c.pipeline_status.failed_jobs = 0
             /\ c.pipeline_status.scheduler_running )
           => score = 90 /\ c.result = "healthy"
        /\ ( /\ c.database_health.status = "unhealthy"
             /\ c.pipeline_status.failed_jobs = 1 )
           => score <= 45 /\ c.result = "critical"

\* cpu and memory over their limits, nothing else wrong: the score is exactly
\* 80 and the answer is healthy.
C11_Witness ==
  /\ health_call.returned
  /\ health_call.system_metrics = Some([cpu_percent |-> 85, memory_percent |-> 91,
                                        disk_percent |-> 90])
  /\ health_call.database_health.status = "healthy"
  /\ health_call.pipeline_status.failed_jobs = 0
  /\ health_call.pipeline_status.scheduler_running
  /\ StatedScore(health_call) = 80
  /\ health_call.result = "healthy"

\* C12: check_database_health always returns a result whose status is healthy
\* or unhealthy, never raising, and generate_health_report always ends with a
\* report that has an overall_health.
C12_CheckStoreAlwaysAnswers ==
  /\ report.pc # "raised"
  /\ report.pc \in {"status", "done"} =>
       /\ report.database_health.kind = "dict"
       /\ report.database_health.status \in {"healthy", "unhealthy"}
  /\ report.pc = "done" =>
       report.overall_health \in {"healthy", "warning", "critical"}

\* Every sub-entity load of the run of context t was attempted and succeeded.
LoadSucceeded(t) ==
  /\ "load" \in Range(pipeline[t].stages)
  /\ Len(pipeline[t].loads) = Len(LoadOrder)
  /\ \A i \in 1..Len(pipeline[t].loads) : pipeline[t].loads[i]

ExpectedStages(cfg) ==
  <<"extract">>
    \o (IF cfg.validation_enabled THEN <<"validate">> ELSE << >>)
    \o <<"transform", "load">>
    \o (IF cfg.backup_enabled THEN <<"backup">> ELSE << >>)

IsPrefix(s, e) == Len(s) <= Len(e) /\ \A i \in 1..Len(s) : s[i] = e[i]

\* C16: at every moment the stages a run has gone through are an initial part
\* of Extract, Validate (if enabled), Transform, Load, Backup (if enabled), so
\* each stage occurs at most once and none after a later one; and Backup is
\* reached only after every sub-entity load succeeded.
C16_StagesInOrder ==
  \A t \in Threads :
    /\ IsPrefix(pipeline[t].stages, ExpectedStages(job_info[t].config))
    /\ "backup" \in Range(pipeline[t].stages) => LoadSucceeded(t)

\* A run with validation disabled went from Extract straight to Transform and
\* on to Backup; another run ended failed at Transform.
C16_Witness ==
  /\ \E t \in Threads :
       /\ pc[t] = "return"
       /\ pipeline[t].stages = <<"extract", "transform", "load", "backup">>
       /\ job_info[t].status = "completed"
  /\ \E i \in 1..Len(pipeline_history) :
       /\ pipeline_history[i].status = "failed"
       /\ pipeline_history[i].seq = 1

\* C17: a backup copy of a run exists only if backup is enabled and its load
\* succeeded; and a run whose load succeeded and whose metrics could be saved
\* is completed, whether the copy was made or failed.
C17_BackupNeverChangesStatus ==
  \A t \in Threads :
    /\ job_info[t].seq \in backups =>
         job_info[t].config.backup_enabled /\ LoadSucceeded(t)
    /\ Returning(t) /\ LoadSucceeded(t) /\ pipeline[t].raised # "save_metrics"
         => job_info[t].status = "completed"

\* Backup enabled on sqlite, the load succeeded, the copy failed: completed.
C17_Witness ==
  \E t \in Threads :
    /\ pc[t] = "return"
    /\ LoadSucceeded(t)
    /\ "backup" \in Range(pipeline[t].stages)
    /\ job_info[t].config.target_database = "sqlite"
    /\ job_info[t].seq \notin backups
    /\ job_info[t].status = "completed"

\* C14: the manual run of the command line prints the final status and exits
\* with a non-zero code when that status is failed or error, with code 0 when
\* it is completed.
C14_ExitCodeReflectsStatus ==
  cli.exited =>
    /\ cli.printed \in {"failed", "error"} => cli.exit_code # 0
    /\ cli.printed = "completed" => cli.exit_code = 0

\* C15: with a missing or invalid configuration file no run is started and
\* nothing is written to a target store.
C15_BadConfigStartsNoRun ==
  config_file.state # "valid" =>
    /\ \A t \in Threads : pc[t] = "idle"
    /\ store = {}

\* C18: every call of run_pipeline_job eventually ends with a job run of final
\* status that is in the history exactly once.
C18_EveryRunEnds ==
  (runs = 1) ~>
    ( /\ pc["manual"] = "idle"
      /\ Len(finished) = 1
      /\ Len(pipeline_history) = 1
      /\ pipeline_history[1].status \in {"completed", "failed", "error"} )

\* C19: a run that failed because blocking validation failed carries the
\* collected validation issues as its error detail.
C19_ValidationFailureCarriesIssues ==
  \A t \in Threads :
    Returning(t) /\ ValidationFailed(t) /\ job_info[t].status = "failed"
      => job_info[t].error # Absent

\* The job run of context t is the same run, unchanged, after the step.
SameJobRun(t) == job_info'[t].seq = job_info[t].seq => job_info'[t] = job_info[t]

\* The entries of the history are never rewritten: a run in the history before
\* and after a step is the same in both.
HistoryEntriesKept ==
  \A i \in 1..Len(pipeline_history), j \in 1..Len(pipeline_history') :
    pipeline_history[i].seq = pipeline_history'[j].seq
      => pipeline_history[i] = pipeline_history'[j]

\* C20 as stated: once the status of a job run is completed, failed or error,
\* no step writes a field of it, before or after it is appended.
C20_ImmutableOnceFinal ==
  [][ /\ \A t \in Threads :
           job_info[t].status \in {"completed", "failed", "error"} => SameJobRun(t)
      /\ HistoryEntriesKept ]_vars

\* C20, amended: once a job run is appended to the history no step writes a
\* field of it, neither through the call's job_info nor in the history.
C20_ImmutableOnceAppended ==
  [][ /\ \A t \in Threads : Appended(t) => SameJobRun(t)
      /\ HistoryEntriesKept ]_vars

\* Two runs are in the history, the first one as it was appended, and the
\* second, with its metrics, is being returned.
C20_Witness ==
  \E t \in Threads :
    /\ pc[t] = "return"
    /\ Len(pipeline_history) = 2
    /\ pipeline_history[1].seq = 1
    /\ pipeline_history[1].status = "failed"
    /\ pipeline_history[2] = job_info[t]
    /\ job_info[t].status = "completed"
    /\ job_info[t].metrics # Absent

\* C21: the batch handed to Transform has the columns and values of the batch
\* Extract produced.
C21_ValidationLeavesBatch ==
  batch.pc = "transform" => batch.df = batch.raw

\* The number of rows of the frame that have the name of its first row.
SharedRows(df) ==
  Cardinality({i \in 1..Len(df.rows) : df.rows[i]["Name"] = df.rows[1]["Name"]})

DuplicateIssues(issues) ==
  Cardinality({i \in 1..Len(issues) : issues[i] = "duplicate_names"})

\* C22: patient validation of a batch in which one name has 40% of the rows
\* gives no duplicate-identity issue, and of a batch in which it has 60% of the
\* rows gives exactly one.
C22_DuplicateThreshold ==
  ( /\ batch.pc \in {"transform", "failed"}
    /\ batch.validation_enabled
    /\ "Name" \in batch.raw.columns
    /\ Len(batch.raw.rows) >= 5 )
  => LET n == Len(batch.raw.rows)
         k == SharedRows(batch.raw)
     IN  /\ 100 * k = 40 * n => DuplicateIssues(batch.issues) = 0
         /\ 100 * k = 60 * n => DuplicateIssues(batch.issues) = 1

\* A sex label in lower case.
Lower(label) ==
  CASE label \in {"Male", "MALE", "male"} -> "male"
    [] label \in {"Female", "FEMALE", "female"} -> "female"
    [] label \in {"M", "m"} -> "m"
    [] label \in {"F", "f"} -> "f"
    [] OTHER -> label

\* C23: clean_patient_data maps every spelling of male or m to M and of female
\* or f to F, whatever the letter case, and anything else to Unknown.
C23_GenderCaseInsensitive ==
  batch.pc = "transformed" /\ "Gender" \in batch.raw.columns =>
    \A i \in 1..Len(batch.raw.rows) :
      LET label == batch.raw.rows[i]["Gender"]
          code == batch.clean.rows[i]["Gender"]
      IN  code = CASE Lower(label) \in {"male", "m"} -> "M"
                   [] Lower(label) \in {"female", "f"} -> "F"
                   [] OTHER -> "Unknown"

\* C24: transform_data returns a cleaned batch for every batch and never
\* raises.
C24_TransformTotal == batch.pc # "raised"

\* C25: every job run created under a command line with --environment E runs
\* against E, in the manual mode and in the polling loop of --schedule.
C25_JobsRunInCliEnvironment ==
  /\ \A t \in Threads :
       pc[t] # "idle" => job_info[t].environment = cli.environment
  /\ \A i \in 1..Len(pipeline_history) :
       pipeline_history[i].environment = cli.environment

\* The n most recent entries of a history, oldest first.
MostRecent(history, n) ==
  SubSeq(history, Len(history) - Min(n, Len(history)) + 1, Len(history))

\* C26: get_job_history(limit) returns the min(limit, length) most recent job
\* runs in chronological order for every limit >= 0, an empty list for limit 0,
\* and leaves the history unchanged.
C26_HistoryLimit ==
  [][ history_call' # history_call /\ history_call'.limit >= 0 =>
        /\ history_call'.result =
             MostRecent(pipeline_history, history_call'.limit)
        /\ pipeline_history' = pipeline_history ]_vars

\* No job run in the history is running, and get_pipeline_status counts every
\* entry as successful or failed.
StatusCountsPartition ==
  LET st == get_pipeline_status(pipeline_history, FALSE) IN
    /\ \A i \in 1..Len(pipeline_history) : pipeline_history[i].status # "running"
    /\ st.total_jobs = st.successful_jobs + st.failed_jobs
    /\ st.total_jobs = Len(pipeline_history)

\* C27: in every reachable state no job run in the history is running, so
\* get_pipeline_status reports total = successful + failed = the length of the
\* history, and last_job is the job run appended most recently (None while
\* nothing was appended).
C27_StatusCountsHistory ==
  LET st == get_pipeline_status(pipeline_history, FALSE) IN
    /\ StatusCountsPartition
    /\ finished = << >> => st.last_job = Absent
    /\ finished # << >> => \E job \in st.last_job : job.seq = Last(finished)

\* The job runs of the history and those under way that have their metrics.
MeasuredJobs ==
  {pipeline_history[i] : i \in 1..Len(pipeline_history)}
    \cup {job_info[t] : t \in {u \in Threads : pc[u] # "idle"}}

\* C28: the success_rate of every job run lies between 0 and 100, for every
\* batch size and every number of validation issues.
C28_SuccessRateInRange ==
  \A job \in MeasuredJobs :
    job.metrics # Absent =>
      LET sr == SuccessRateOf(job) IN
        /\ 0 <= sr.num
        /\ sr.num <= 100 * sr.den

\* 100 - success_rate > error_rate_threshold, the last condition of
\* should_send_alert.
ErrorRateAlert(job, cfg) ==
  LET sr == SuccessRateOf(job) IN
    100 * sr.den - sr.num
      > Get(cfg.error_rate_threshold, DefaultErrorRateThreshold) * sr.den

\* C29: every completed job run has records_failed = 0 and success_rate = 100,
\* so the error-rate condition of the alert does not hold for it.
C29_CompletedRunsAreClean ==
  \A job \in MeasuredJobs :
    job.status = "completed" =>
      /\ job.metrics # Absent
      /\ Get(job.metrics, 0).records_failed = 0
      /\ SuccessRateOf(job).num = 100 * SuccessRateOf(job).den
      /\ ~ErrorRateAlert(job, config)

\* A completed run of two records is in the history with success_rate 100.
C29_Witness ==
  \E i \in 1..Len(pipeline_history) :
    /\ pipeline_history[i].status = "completed"
    /\ pipeline_history[i].metrics # Absent
    /\ Get(pipeline_history[i].metrics, 0).records_processed = 2
    /\ Get(pipeline_history[i].metrics, 0).records_failed = 0
    /\ SuccessRateOf(pipeline_history[i]) = [num |-> 200, den |-> 2]

\* C30: the job runs of the history have pairwise distinct job_id values, two
\* runs started within the same second included.
C30_JobIdsDistinct ==
  \A i, j \in 1..Len(pipeline_history) :
    i # j => pipeline_history[i].job_id # pipeline_history[j].job_id
====
